---- MODULE Spec2Model ----
(***************************************************************************)
(* Audio-visual synchronisation engine: the transcript aligner             *)
(* (src/src/core/whisper.py), the per-word pose resolution and the mouth   *)
(* animation frames (src/src/core/asset_assembler.py,                      *)
(* src/lds_mcp/tools/short_renderer.py) and the visual asset schedule      *)
(* (src/lds_mcp/tools/short_renderer.py).                                  *)
(*                                                                         *)
(* Conventions.  Transcript indices are 0-based as in the Python code; the *)
(* TLA+ sequences are 1-based, so word k of the code is transcript[k+1].   *)
(* Times are integers in centiseconds (the transcript's times are rounded  *)
(* to two decimals, whisper.py:561-562); arithmetic on them is exact, the  *)
(* binary floating point rounding of the Python code is not modelled.      *)
(***************************************************************************)
EXTENDS Integers, Sequences, FiniteSets, TLC

VARIABLES
    component,        \* which stage of the pipeline this behaviour exercises
    pc,               \* position of the running function
    transcript,       \* transcript_words: sequence of [word, start, end]
    script,           \* script_segments: sequence of segment texts (sequences of raw tokens)
    seg_i,            \* loop variable i of Phase 2 (0-based)
    current_idx,      \* the cursor of Phase 2
    aligned_segments, \* the enriched segments built so far, with the values the loop logs
    pose_in,          \* pose resolution: [builder, character, char_poses, n_words]
    pose_out,         \* pose resolution: the pose id chosen for each word index so far
    anim_in,          \* _create_animation_frames: [word, start, end, pose_known]
    anim_out,         \* _create_animation_frames: [outcome, frames]
    visual_in,        \* visual asset schedule: [resolved, has_segment, seg_start, seg_end]
    visual_out,       \* visual asset schedule: the windows appended so far
    render,           \* one render run: its inputs, locals, files and result
    execute,          \* one execute_render call: the inputs found on disk, its steps and result
    image_cache,      \* LRUCache: the OrderedDict and the history of its uses
    captions,         \* CaptionGenerator: timeline, caches and the answers given so far
    renders,          \* two concurrent execute_render calls and the files they touch
    floating,         \* floating image schedule: the assets and the schedule items built
    finder,           \* _find_active_segment: the plan, the frame time and the cached index
    mouth,            \* _should_mouth_be_open: the word, the time and the values it computes
    flat,             \* flat word list of generate_timestamps_from_audio: tokens, cursor, words
    sfx,              \* _prepare_audio: the images and the sound effect placements
    progress          \* the records written to the render status file by one render

alignVars == <<transcript, script, seg_i, current_idx, aligned_segments>>
poseVars == <<pose_in, pose_out>>
animVars == <<anim_in, anim_out>>
visualVars == <<visual_in, visual_out>>

toolVars == <<floating, finder, mouth, flat, sfx, progress>>

engineVars == <<render, execute, image_cache, captions, renders, toolVars>>

vars == <<component, pc, alignVars, poseVars, animVars, visualVars, engineVars>>

\* The variables of the smaller functions, when a behaviour does not exercise them.
ToolIdle ==
    /\ floating = <<>>
    /\ finder = <<>>
    /\ mouth = <<>>
    /\ flat = <<>>
    /\ sfx = <<>>
    /\ progress = <<>>

\* The variables of the rendering engine, when a behaviour does not exercise it.
EngineIdle ==
    /\ render = <<>>
    /\ execute = <<>>
    /\ image_cache = <<>>
    /\ captions = <<>>
    /\ renders = <<>>
    /\ ToolIdle

Min(a, b) == IF a < b THEN a ELSE b
Max(a, b) == IF a > b THEN a ELSE b

(***************************************************************************)
(* Bounds of the model.                                                    *)
(***************************************************************************)
MaxShortWords == 3     \* short transcripts: every word sequence up to this length
MaxSegs == 3           \* short scripts: every segment sequence up to this length
LongWords == 32        \* long transcripts: filler with two embedded phrases

(***************************************************************************)
(* Program constants of align_transcript_with_script.                      *)
(***************************************************************************)
NotFound == -1         \* find_sequence_start's "not found", and the initial candidates
MinMatchLen == 2       \* min_match_len
MaxHeadLen == 5        \* head sequences start at min(5, len(target_words)) words
MaxTailLen == 3        \* end_words are the last min(3, len(target_words)) words
MinWindow == 20        \* search_window = max(20, estimated_word_count // 2)

(***************************************************************************)
(* Text.  A raw token is one whitespace-separated piece of text.           *)
(* CleanWord is re.sub(r'[^\w\s]', '', w).lower() on a transcript word;    *)
(* NormalizeToken is simple_normalize on one token of a script text:       *)
(* bracketed tags vanish, a dash splits the token, punctuation is removed  *)
(* and letters are lowercased.                                             *)
(***************************************************************************)
CleanWord(w) ==
    CASE w = "The," -> "the"
      [] w = "End." -> "end"
      [] OTHER -> w

NormalizeToken(tok) ==
    CASE tok = "[sigh]" -> <<>>
      [] tok = "so-far" -> <<"so", "far">>
      [] tok = "End." -> <<"end">>
      [] tok = "The," -> <<"the">>
      [] OTHER -> <<tok>>

HasDigit(tok) == tok \in {"7"}

RECURSIVE get_normalized_words(_)
get_normalized_words(text) ==
    IF text = <<>> THEN <<>>
    ELSE NormalizeToken(Head(text)) \o get_normalized_words(Tail(text))

has_numbers(text) == \E n \in 1..Len(text) : HasDigit(text[n])

(***************************************************************************)
(* Sequence search over the transcript.                                    *)
(***************************************************************************)
total_words == Len(transcript)

CleanAt(k) == CleanWord(transcript[k + 1].word)

\* The inner "for j" loop: every word of seq equals the cleaned transcript word.
MatchAt(k, seq) ==
    \A j \in 1..Len(seq) : k + j - 1 < total_words /\ CleanAt(k + j - 1) = seq[j]

\* The inner loop reads transcript_words[k + j] past the end of the list
\* (IndexError) when every word before the end matched.
RaisesAt(k, seq) ==
    /\ k + Len(seq) > total_words
    /\ \A h \in 1..(total_words - k) : CleanAt(k + h - 1) = seq[h]

\* for k in range(lo, hi): the first k where seq matches, else NotFound.
RECURSIVE ScanFrom(_, _, _)
ScanFrom(k, hi, seq) ==
    IF k >= hi THEN NotFound
    ELSE IF MatchAt(k, seq) THEN k
    ELSE ScanFrom(k + 1, hi, seq)

\* The same loop reaches an index where the read raises before it returns.
ScanRaises(lo, hi, seq) ==
    \E k \in lo..(hi - 1) :
        /\ RaisesAt(k, seq)
        /\ \A h \in lo..(k - 1) : ~MatchAt(h, seq)

\* Upper end of "range(start_idx, min(search_limit, total_words - match_len + 1))".
ScanLimitUnclamped(search_limit, match_len) == search_limit

ScanLimit(search_limit, match_len) ==
    Min(search_limit, total_words - match_len + 1)

RECURSIVE FindWithLen(_, _, _, _)
FindWithLen(start_idx, target_words, search_limit, match_len) ==
    IF match_len < MinMatchLen THEN NotFound
    ELSE LET k == ScanFrom(start_idx, ScanLimit(search_limit, match_len),
                           SubSeq(target_words, 1, match_len))
         IN  IF k # NotFound THEN k
             ELSE FindWithLen(start_idx, target_words, search_limit, match_len - 1)

find_sequence_start(start_idx, target_words, search_limit) ==
    IF target_words = <<>> THEN start_idx
    ELSE FindWithLen(start_idx, target_words, search_limit,
                     Min(MaxHeadLen, Len(target_words)))

RECURSIVE FindRaisesWithLen(_, _, _, _)
FindRaisesWithLen(start_idx, target_words, search_limit, match_len) ==
    IF match_len < MinMatchLen THEN FALSE
    ELSE LET seq == SubSeq(target_words, 1, match_len)
             hi == ScanLimit(search_limit, match_len)
         IN  \/ ScanRaises(start_idx, hi, seq)
             \/ /\ ScanFrom(start_idx, hi, seq) = NotFound
                /\ FindRaisesWithLen(start_idx, target_words, search_limit, match_len - 1)

find_sequence_start_raises(start_idx, target_words, search_limit) ==
    /\ target_words # <<>>
    /\ FindRaisesWithLen(start_idx, target_words, search_limit,
                         Min(MaxHeadLen, Len(target_words)))

(***************************************************************************)
(* Phase 1: expected word counts and their proportional distribution.      *)
(***************************************************************************)
\* max(1, int(len(words) * multiplier)), multiplier 1.5 when the text has a digit
segment_word_count(text) ==
    LET n == Len(get_normalized_words(text))
        estimated_count == IF has_numbers(text) THEN (n * 3) \div 2 ELSE n
    IN  Max(1, estimated_count)

RECURSIVE SumCounts(_)
SumCounts(n) == IF n = 0 THEN 0 ELSE segment_word_count(script[n]) + SumCounts(n - 1)

total_estimated == SumCounts(Len(script))

\* int(total_words * (count / total_estimated)), before the adjustment
RawProportional(n) == (total_words * segment_word_count(script[n])) \div total_estimated

RECURSIVE SumRawProportional(_)
SumRawProportional(n) == IF n = 0 THEN 0 ELSE RawProportional(n) + SumRawProportional(n - 1)

\* proportional_counts[i] for the 0-based segment i: the rest goes to the last one
proportional_counts(i) ==
    IF i + 1 = Len(script)
    THEN RawProportional(i + 1) + (total_words - SumRawProportional(Len(script)))
    ELSE RawProportional(i + 1)

(***************************************************************************)
(* Phase 2: one iteration of the loop over the segments, for segment i     *)
(* entered with the cursor at cur.                                         *)
(***************************************************************************)
target_words_of(i) == get_normalized_words(script[i + 1])

expected_end_of(i, cur) == Min(cur + proportional_counts(i), total_words)

search_window_of(i) == Max(MinWindow, proportional_counts(i) \div 2)

StartSearched(i) == i > 0 /\ target_words_of(i) # <<>>

found_start_of(i, cur) ==
    find_sequence_start(cur, target_words_of(i),
                        Min(cur + search_window_of(i), total_words))

\* segment_start_idx: the found start when it is at or after the cursor, else the cursor
segment_start_idx_of(i, cur) ==
    IF StartSearched(i)
    THEN LET found_start == found_start_of(i, cur)
         IN  IF found_start # NotFound /\ found_start >= cur THEN found_start ELSE cur
    ELSE cur

\* Both end searches run over range(lo, hi) around the expected end.
EndSearchLo(i, cur) ==
    Max(segment_start_idx_of(i, cur) + 1, expected_end_of(i, cur) - search_window_of(i))

EndSearchHi(i, cur) ==
    Min(expected_end_of(i, cur) + search_window_of(i), total_words)

\* A. the last words of the current segment
end_words_of(i) ==
    LET t == target_words_of(i)
    IN  SubSeq(t, Len(t) - Min(MaxTailLen, Len(t)) + 1, Len(t))

RECURSIVE TailWithLen(_, _, _)
TailWithLen(i, cur, match_len) ==
    IF match_len < 1 THEN NotFound
    ELSE LET ew == end_words_of(i)
             k == ScanFrom(EndSearchLo(i, cur),
                           ScanLimit(EndSearchHi(i, cur), match_len),
                           SubSeq(ew, Len(ew) - match_len + 1, Len(ew)))
         IN  IF k # NotFound THEN k + match_len
             ELSE TailWithLen(i, cur, match_len - 1)

current_end_candidate_of(i, cur) ==
    IF Len(target_words_of(i)) >= 2
    THEN TailWithLen(i, cur, Len(end_words_of(i)))
    ELSE NotFound

RECURSIVE TailRaisesWithLen(_, _, _)
TailRaisesWithLen(i, cur, match_len) ==
    IF match_len < 1 THEN FALSE
    ELSE LET ew == end_words_of(i)
             seq == SubSeq(ew, Len(ew) - match_len + 1, Len(ew))
             lo == EndSearchLo(i, cur)
             hi == ScanLimit(EndSearchHi(i, cur), match_len)
         IN  \/ ScanRaises(lo, hi, seq)
             \/ /\ ScanFrom(lo, hi, seq) = NotFound
                /\ TailRaisesWithLen(i, cur, match_len - 1)

\* B. the first words of the next segment
NextSearched(i) == i + 1 < Len(script) /\ target_words_of(i + 1) # <<>>

next_start_candidate_of(i, cur) ==
    IF NextSearched(i)
    THEN find_sequence_start(EndSearchLo(i, cur), target_words_of(i + 1),
                             EndSearchHi(i, cur))
    ELSE NotFound

\* C. the boundary, by priority
DecideEndTailFirst(seg_start, expected_end, cur_cand, next_cand) ==
    IF cur_cand # NotFound /\ cur_cand > seg_start THEN cur_cand
    ELSE IF next_cand # NotFound /\ next_cand > seg_start THEN next_cand
    ELSE Max(seg_start + 1, expected_end)

DecideEnd(seg_start, expected_end, cur_cand, next_cand) ==
    IF next_cand # NotFound /\ next_cand > seg_start THEN next_cand
    ELSE IF cur_cand # NotFound /\ cur_cand > seg_start THEN cur_cand
    ELSE Max(seg_start + 1, expected_end)

\* "For last segment, ensure all remaining words are captured"
LastSegmentEndKept(i, decided) == decided

LastSegmentEnd(i, decided) ==
    IF i + 1 >= Len(script) THEN total_words ELSE decided

\* "Safety: Ensure we don't go backwards"
NoBackwardsDropped(seg_start, seg_end) == seg_end

NoBackwards(seg_start, seg_end) == Max(seg_start, seg_end)

segment_end_idx_of(i, seg_start, expected_end, cur_cand, next_cand) ==
    NoBackwards(seg_start,
                LastSegmentEnd(i, DecideEnd(seg_start, expected_end, cur_cand, next_cand)))

\* transcript_words[:hi], a slice that forgets its start
SliceFromFirst(lo, hi) == SubSeq(transcript, 1, Min(hi, total_words))

\* transcript_words[lo:hi], a Python slice
Slice(lo, hi) ==
    IF lo >= Min(hi, total_words) THEN <<>>
    ELSE SubSeq(transcript, lo + 1, Min(hi, total_words))

\* Some transcript read of the iteration raises IndexError.
IterationRaises(i, cur) ==
    \/ StartSearched(i)
         /\ find_sequence_start_raises(cur, target_words_of(i),
                                       Min(cur + search_window_of(i), total_words))
    \/ Len(target_words_of(i)) >= 2
         /\ TailRaisesWithLen(i, cur, Len(end_words_of(i)))
    \/ NextSearched(i)
         /\ find_sequence_start_raises(EndSearchLo(i, cur), target_words_of(i + 1),
                                       EndSearchHi(i, cur))

\* enriched['start'] and enriched['end'] of the assigned words
segment_start_time(assigned_words, prev_end) ==
    IF assigned_words # <<>> THEN assigned_words[1].start ELSE prev_end

segment_end_time(assigned_words, prev_end) ==
    IF assigned_words # <<>> THEN assigned_words[Len(assigned_words)].end ELSE prev_end

\* The end of the last aligned segment, 0.0 when there is none yet
last_aligned_end ==
    IF aligned_segments # <<>> THEN aligned_segments[Len(aligned_segments)].end ELSE 0

\* The enriched segment, with the values the loop computed about it.
EnrichedSegment(cur, expected_end, cur_cand, next_cand, seg_start, seg_end, assigned_words) ==
    [ cursor_in |-> cur,
      expected_end |-> expected_end,
      current_end_candidate |-> cur_cand,
      next_start_candidate |-> next_cand,
      start_idx |-> seg_start,
      end_idx |-> seg_end,
      words |-> assigned_words,
      start |-> segment_start_time(assigned_words, last_aligned_end),
      end |-> segment_end_time(assigned_words, last_aligned_end) ]

EnrichedUpTo(i, cur, expected_end, cur_cand, next_cand, seg_start, seg_end) ==
    EnrichedSegment(cur, expected_end, cur_cand, next_cand, seg_start, seg_end,
                    Slice(seg_start, seg_end))

EnrichedFrom(i, cur, expected_end, cur_cand, next_cand, seg_start) ==
    EnrichedUpTo(i, cur, expected_end, cur_cand, next_cand, seg_start,
                 segment_end_idx_of(i, seg_start, expected_end, cur_cand, next_cand))

Enriched(i, cur) ==
    EnrichedFrom(i, cur, expected_end_of(i, cur), current_end_candidate_of(i, cur),
                 next_start_candidate_of(i, cur), segment_start_idx_of(i, cur))

(***************************************************************************)
(* Inputs.                                                                 *)
(***************************************************************************)
SeqsUpTo(S, n) == UNION { [1..m -> S] : m \in 0..n }

\* Word k (0-based) lasts 0.2 s when k is even and 0.3 s when odd; words follow
\* each other without a pause: "the" [0.0, 0.2], "end" [0.2, 0.5], ...
WordStart(k) == 50 * (k \div 2) + 20 * (k % 2)
WordEnd(k) == WordStart(k) + (IF k % 2 = 0 THEN 20 ELSE 30)

MkTranscript(ws) ==
    [ j \in 1..Len(ws) |-> [word |-> ws[j], start |-> WordStart(j - 1), end |-> WordEnd(j - 1)] ]

ShortVocabulary == {"the", "End."}

SegmentTexts ==
    { <<"the", "end">>, <<"End.", "the">>, <<"the", "7", "end">>, <<"[sigh]">> }

\* A long transcript: filler, "the end" at p1 and "the end so" at p2.
LongTranscript(p1, p2) ==
    [ j \in 1..LongWords |->
        CASE j = p2 + 1 -> "the"
          [] j = p2 + 2 -> "end"
          [] j = p2 + 3 -> "so"
          [] j = p1 + 1 -> "The,"
          [] j = p1 + 2 -> "end"
          [] OTHER -> "uh" ]

LongScripts ==
    { << <<"far">>, <<"the", "end", "so">> >>,
      << <<"uh", "the", "end">>, <<"the", "end", "so">> >> }

AlignInputs ==
    ({ MkTranscript(ws) : ws \in SeqsUpTo(ShortVocabulary, MaxShortWords) }
        \X SeqsUpTo(SegmentTexts, MaxSegs))
    \cup
    ({ MkTranscript(LongTranscript(p1, p2)) :
           p1 \in 0..(LongWords - 2), p2 \in 0..(LongWords - 3) }
        \X LongScripts)

\* The variables of the stages a behaviour does not exercise.
AlignIdle ==
    /\ transcript = <<>>
    /\ script = <<>>
    /\ seg_i = 0
    /\ current_idx = 0
    /\ aligned_segments = <<>>

PoseIdle == pose_in = <<>> /\ pose_out = <<>>

AnimIdle == anim_in = <<>> /\ anim_out = <<>>

VisualIdle == visual_in = <<>> /\ visual_out = <<>>

(***************************************************************************)
(* align_transcript_with_script as a state machine.                        *)
(***************************************************************************)
AlignInit ==
    /\ component = "align"
    /\ pc = "start"
    /\ \E input \in AlignInputs :
          /\ transcript = input[1]
          /\ script = input[2]
    /\ seg_i = 0
    /\ current_idx = 0
    /\ aligned_segments = <<>>
    /\ PoseIdle
    /\ AnimIdle
    /\ VisualIdle
    /\ EngineIdle

\* "if not script_segments or total_words == 0: return []"
AlignReturnEmpty ==
    /\ component = "align"
    /\ pc = "start"
    /\ (script = <<>> \/ total_words = 0)
    /\ pc' = "done"
    /\ UNCHANGED <<component, alignVars, poseVars, animVars, visualVars>>
    /\ UNCHANGED engineVars

\* Phase 1 is a function of the inputs; Phase 2 starts with the cursor at 0.
AlignBegin ==
    /\ component = "align"
    /\ pc = "start"
    /\ script # <<>>
    /\ total_words # 0
    /\ pc' = "phase2"
    /\ seg_i' = 0
    /\ current_idx' = 0
    /\ UNCHANGED <<component, transcript, script, aligned_segments>>
    /\ UNCHANGED engineVars
    /\ UNCHANGED <<poseVars, animVars, visualVars>>

\* One iteration of "for i, segment in enumerate(script_segments)".
AlignSegment ==
    /\ component = "align"
    /\ pc = "phase2"
    /\ seg_i < Len(script)
    /\ IF IterationRaises(seg_i, current_idx)
       THEN /\ pc' = "raised"
            /\ UNCHANGED <<seg_i, current_idx, aligned_segments>>
       ELSE /\ aligned_segments' = Append(aligned_segments, Enriched(seg_i, current_idx))
            /\ current_idx' = aligned_segments'[Len(aligned_segments')].end_idx
            /\ seg_i' = seg_i + 1
            /\ pc' = pc
    /\ UNCHANGED <<component, transcript, script, poseVars, animVars, visualVars>>
    /\ UNCHANGED engineVars

\* "return aligned_segments"
AlignReturn ==
    /\ component = "align"
    /\ pc = "phase2"
    /\ seg_i = Len(script)
    /\ pc' = "done"
    /\ UNCHANGED <<component, alignVars, poseVars, animVars, visualVars>>
    /\ UNCHANGED engineVars

AlignNext == AlignReturnEmpty \/ AlignBegin \/ AlignSegment \/ AlignReturn

SpecAlign == AlignInit /\ [][AlignNext]_vars

(***************************************************************************)
(* Claims about the aligner, checked under SpecAlign.                      *)
(***************************************************************************)
Returned == component = "align" /\ pc = "done" /\ aligned_segments # <<>>

NonFinal(n) == n < Len(script)

HeadFound(r) == r.next_start_candidate # NotFound /\ r.next_start_candidate > r.start_idx

TailFound(r) == r.current_end_candidate # NotFound /\ r.current_end_candidate > r.start_idx

Distance(a, b) == IF a >= b THEN a - b ELSE b - a

\* C1: in the returned alignment every transcript word lies in the word range
\* of exactly one segment, and the word range of each segment ends at the
\* index where the word range of the next segment begins.
C1_EveryWordOnceNoGaps ==
    Returned =>
        /\ \A k \in 0..(total_words - 1) :
              Cardinality({ n \in 1..Len(aligned_segments) :
                              /\ aligned_segments[n].start_idx <= k
                              /\ k < aligned_segments[n].end_idx }) = 1
        /\ \A n \in 1..(Len(aligned_segments) - 1) :
              aligned_segments[n].end_idx = aligned_segments[n + 1].start_idx

\* C2: the cursor never moves backwards: every segment starts at or after the
\* cursor value on entry, ends at or after its start, and the cursor after the
\* segment (the entry value of the next one) is the segment's end index.
C2_CursorMonotone ==
    component = "align" =>
        /\ \A n \in 1..Len(aligned_segments) :
              /\ aligned_segments[n].start_idx >= aligned_segments[n].cursor_in
              /\ aligned_segments[n].end_idx >= aligned_segments[n].start_idx
        /\ \A n \in 1..(Len(aligned_segments) - 1) :
              aligned_segments[n + 1].cursor_in = aligned_segments[n].end_idx
        /\ aligned_segments # <<>> =>
              current_idx = aligned_segments[Len(aligned_segments)].end_idx

\* A segment whose start was moved past the cursor by a head match, in a
\* finished alignment of several segments.
C2_Witness ==
    /\ Returned
    /\ \E n \in 2..Len(aligned_segments) :
          /\ aligned_segments[n].start_idx > aligned_segments[n].cursor_in
          /\ aligned_segments[n].end_idx > aligned_segments[n].start_idx

\* C3: when the end search of a segment finds the head of the next segment at
\* index k after the segment's start, the segment ends at k and the next
\* segment starts at k.
C3_BoundaryAtHeadMatch ==
    component = "align" =>
        \A n \in 1..(Len(aligned_segments) - 1) :
            HeadFound(aligned_segments[n]) =>
                /\ aligned_segments[n].end_idx = aligned_segments[n].next_start_candidate
                /\ aligned_segments[n + 1].start_idx = aligned_segments[n].next_start_candidate

C5_FinalSegmentTakesRest ==
    Returned =>
        LET r == aligned_segments[Len(aligned_segments)]
        IN  /\ Len(aligned_segments) = Len(script)
            /\ r.end_idx = Max(r.start_idx, total_words)
            /\ r.start_idx < total_words =>
                  /\ r.words = SubSeq(transcript, r.start_idx + 1, total_words)
                  /\ r.start = transcript[r.start_idx + 1].start
                  /\ r.end = transcript[total_words].end
            /\ Len(script) = 1 =>
                  /\ r.start_idx = 0
                  /\ r.words = transcript

\* The scenario of the specification: the [0.0, 0.2], end [0.2, 0.5] (here
\* transcribed "End."), one segment "the end".
C5_Witness ==
    /\ Returned
    /\ script = << <<"the", "end">> >>
    /\ transcript = << [word |-> "the", start |-> 0, end |-> 20],
                       [word |-> "End.", start |-> 20, end |-> 50] >>
    /\ Len(aligned_segments) = 1
    /\ aligned_segments[1].words = transcript
    /\ aligned_segments[1].start = 0
    /\ aligned_segments[1].end = 50

MaxSpans == 2          \* a segment declares up to this many pose spans
MaxPoseIndex == 5      \* word indices of a segment run from 0 to this

\* _normalize_pose_id with POSE_ID_ALIASES: a legacy prefix is replaced.
normalize_pose_id(pose_id) ==
    CASE pose_id = "brother_marcus_side" -> "skeptic_side"
      [] pose_id = "sister_faith_front" -> "analyst_front"
      [] OTHER -> pose_id

\* STANDARD_CHARACTERS[...].default_pose, "analyst" for an unknown character
default_pose(character) ==
    IF character = "Skeptic" THEN "skeptic_front" ELSE "analyst_front"

\* pose['start_word_index'] <= w_idx <= pose['end_word_index']
SpanContainsHalfOpen(span, w_idx) ==
    span.start_word_index <= w_idx /\ w_idx < span.end_word_index

SpanContains(span, w_idx) ==
    span.start_word_index <= w_idx /\ w_idx <= span.end_word_index

\* "for pose in poses: if <contains>: ...; break": the index of the first span
\* from position n on that contains w_idx, 0 when there is none
RECURSIVE FirstContaining(_, _, _)
FirstContaining(poses, w_idx, n) ==
    IF n > Len(poses) THEN 0
    ELSE IF SpanContains(poses[n], w_idx) THEN n
    ELSE FirstContaining(poses, w_idx, n + 1)

NoPose == "None"

\* build_video_plan: the first containing span, else the first declared span
VideoPlanPose(char_poses, w_idx) ==
    LET n == FirstContaining(char_poses, w_idx, 1)
    IN  IF n # 0 THEN normalize_pose_id(char_poses[n].pose_id)
        ELSE IF char_poses # <<>> THEN normalize_pose_id(char_poses[1].pose_id)
        ELSE NoPose

\* build_render_timeline: a line without poses gets the default pose over
\* [0, 999]; the first containing span, else the character's default pose
RenderTimelinePose(char_poses, character, w_idx) ==
    LET poses == IF char_poses = <<>>
                 THEN << [pose_id |-> default_pose(character),
                          start_word_index |-> 0, end_word_index |-> 999] >>
                 ELSE char_poses
        n == FirstContaining(poses, w_idx, 1)
    IN  IF n # 0 THEN poses[n].pose_id ELSE default_pose(character)

PoseIds == {"skeptic_side", "brother_marcus_side", "analyst_front"}

SpanRanges ==
    { <<0, 2>>, <<3, 5>>, <<2, 3>>, <<0, MaxPoseIndex>>, <<4, 1>> }

PoseSpans ==
    { [pose_id |-> id, start_word_index |-> r[1], end_word_index |-> r[2]] :
          id \in PoseIds, r \in SpanRanges }

PoseInit ==
    /\ component = "pose"
    /\ pc = "words"
    /\ \E builder \in {"build_video_plan", "build_render_timeline"},
          character \in {"Analyst", "Skeptic"},
          char_poses \in SeqsUpTo(PoseSpans, MaxSpans),
          n_words \in {1, MaxPoseIndex + 1} :
          pose_in = [builder |-> builder, character |-> character,
                     char_poses |-> char_poses, n_words |-> n_words]
    /\ pose_out = <<>>
    /\ AlignIdle
    /\ AnimIdle
    /\ VisualIdle
    /\ EngineIdle

\* One iteration of "for w_idx, word_obj in enumerate(words)" of build_video_plan.
VideoPlanResolveWord ==
    /\ component = "pose"
    /\ pc = "words"
    /\ pose_in.builder = "build_video_plan"
    /\ Len(pose_out) < pose_in.n_words
    /\ pose_out' = Append(pose_out, VideoPlanPose(pose_in.char_poses, Len(pose_out)))
    /\ UNCHANGED <<component, pc, pose_in, alignVars, animVars, visualVars>>
    /\ UNCHANGED engineVars

\* One iteration of "for word_idx, word in enumerate(words)" of build_render_timeline.
RenderTimelineResolveWord ==
    /\ component = "pose"
    /\ pc = "words"
    /\ pose_in.builder = "build_render_timeline"
    /\ Len(pose_out) < pose_in.n_words
    /\ pose_out' = Append(pose_out,
                          RenderTimelinePose(pose_in.char_poses, pose_in.character,
                                             Len(pose_out)))
    /\ UNCHANGED <<component, pc, pose_in, alignVars, animVars, visualVars>>
    /\ UNCHANGED engineVars

\* The loop over the words of the segment ends.
PoseWordsDone ==
    /\ component = "pose"
    /\ pc = "words"
    /\ Len(pose_out) = pose_in.n_words
    /\ pc' = "done"
    /\ UNCHANGED <<component, poseVars, alignVars, animVars, visualVars>>
    /\ UNCHANGED engineVars

PoseNext == VideoPlanResolveWord \/ RenderTimelineResolveWord \/ PoseWordsDone

SpecPose == PoseInit /\ [][PoseNext]_vars

\* The pose a builder gives a span: build_video_plan renders a legacy id under
\* its catalog id.
RenderedPose(span) ==
    IF pose_in.builder = "build_video_plan"
    THEN normalize_pose_id(span.pose_id)
    ELSE span.pose_id

\* Span n is the first span, in declared order, that contains w.
IsFirstContaining(n, w) ==
    /\ n \in 1..Len(pose_in.char_poses)
    /\ pose_in.char_poses[n].start_word_index <= w
    /\ w <= pose_in.char_poses[n].end_word_index
    /\ \A m \in 1..(n - 1) :
          ~(pose_in.char_poses[m].start_word_index <= w
              /\ w <= pose_in.char_poses[m].end_word_index)

NoneContains(w) == \A n \in 1..Len(pose_in.char_poses) : ~IsFirstContaining(n, w)

\* C7 as stated: both builders give word w the pose of the first span that
\* contains w and, when no span contains w, the pose of the first declared span.
C7_FirstSpanElseFirstDeclared ==
    (component = "pose" /\ pose_in.char_poses # <<>>) =>
        \A w \in 0..(Len(pose_out) - 1) :
            /\ \A n \in 1..Len(pose_in.char_poses) :
                  IsFirstContaining(n, w) =>
                      pose_out[w + 1] = RenderedPose(pose_in.char_poses[n])
            /\ NoneContains(w) => pose_out[w + 1] = RenderedPose(pose_in.char_poses[1])

\* C7 amended: both builders give word w the pose of the first span that
\* contains w; when no span contains w, build_video_plan gives the pose of the
\* first declared span and build_render_timeline the character's default pose.
C7_PoseOfWord ==
    (component = "pose" /\ pose_in.char_poses # <<>>) =>
        \A w \in 0..(Len(pose_out) - 1) :
            /\ \A n \in 1..Len(pose_in.char_poses) :
                  IsFirstContaining(n, w) =>
                      pose_out[w + 1] = RenderedPose(pose_in.char_poses[n])
            /\ NoneContains(w) =>
                  pose_out[w + 1] =
                      IF pose_in.builder = "build_video_plan"
                      THEN RenderedPose(pose_in.char_poses[1])
                      ELSE default_pose(pose_in.character)

\* The scenario of the specification, spans A [0, 2] and B [3, 5]: word 2 has
\* pose A and word 3 pose B; here A = skeptic_side, B = analyst_front.
C7_Witness ==
    /\ component = "pose"
    /\ pc = "done"
    /\ pose_in.char_poses =
          << [pose_id |-> "skeptic_side", start_word_index |-> 0, end_word_index |-> 2],
             [pose_id |-> "analyst_front", start_word_index |-> 3, end_word_index |-> 5] >>
    /\ Len(pose_out) >= 4
    /\ pose_out[3] = "skeptic_side"
    /\ pose_out[4] = "analyst_front"

(***************************************************************************)
(* Mouth animation frames: VideoAnimationBuilder._count_syllables and      *)
(* _create_animation_frames (asset_assembler.py).  A word is a sequence of *)
(* characters; durations are in centiseconds, frame times in milliseconds. *)
(***************************************************************************)
MaxWordLen == 4        \* words over Letters up to this many characters
MaxDuration == 25      \* word durations from 0 to this many centiseconds

FPS == 30                      \* FPS = 30
MinSyllableDuration == 10      \* MIN_SYLLABLE_DURATION = 0.10 s
HoldOpenBelow == 8             \* "if duration < 0.08"
ShortWordLen == 3              \* "if len(word) <= 3: return 1"

Vowels == {"a", "e", "i", "o", "u", "y"}

\* str.lower() on one character
LowerChar(c) ==
    CASE c = "A" -> "a"
      [] c = "L" -> "l"
      [] OTHER -> c

IsSpace(c) == c = " "

\* [a-z]
IsLowerLetter(c) == c \in {"a", "e", "l"}

LowerWord(w) == [ n \in 1..Len(w) |-> LowerChar(w[n]) ]

\* str.strip()
RECURSIVE StripLeft(_)
StripLeft(w) == IF w # <<>> /\ IsSpace(Head(w)) THEN StripLeft(Tail(w)) ELSE w

RECURSIVE StripRight(_)
StripRight(w) ==
    IF w # <<>> /\ IsSpace(w[Len(w)]) THEN StripRight(SubSeq(w, 1, Len(w) - 1)) ELSE w

Strip(w) == StripRight(StripLeft(w))

\* re.sub(r'[^a-z]', '', word)
LettersOnly(w) == SelectSeq(w, IsLowerLetter)

\* word[0] on the empty string: IndexError
count_syllables_raises(word) ==
    LET w == Strip(LowerWord(word))
    IN  Len(w) > ShortWordLen /\ LettersOnly(w) = <<>>

\* the vowel groups of w, w not empty
VowelGroups(w) ==
    (IF w[1] \in Vowels THEN 1 ELSE 0)
    + Cardinality({ index \in 2..Len(w) : w[index] \in Vowels /\ w[index - 1] \notin Vowels })

count_syllables(word) ==
    LET w == Strip(LowerWord(word))
        letters == LettersOnly(w)
        n == Len(letters)
        groups == VowelGroups(letters)
        silent_e == IF letters[n] = "e" THEN groups - 1 ELSE groups
        count == IF n > 2 /\ letters[n] = "e" /\ letters[n - 1] = "l"
                    /\ letters[n - 2] \notin Vowels
                 THEN silent_e + 1
                 ELSE silent_e
    IN  IF w = <<>> THEN 0
        ELSE IF Len(w) <= ShortWordLen THEN 1
        ELSE IF count = 0 THEN 1
        ELSE count

\* max(1, int(duration / MIN_SYLLABLE_DURATION))
max_syllables_for_duration(duration) == Max(1, duration \div MinSyllableDuration)

effective_syllables(word, duration) ==
    IF duration < HoldOpenBelow THEN 1
    ELSE Min(count_syllables(word), max_syllables_for_duration(duration))

\* Python's round() of num/den to an integer: half to even
RoundHalfEven(num, den) ==
    LET q == num \div den
        r == num % den
    IN  IF 2 * r < den THEN q
        ELSE IF 2 * r > den THEN q + 1
        ELSE IF q % 2 = 0 THEN q ELSE q + 1

\* max(1, int(duration * FPS)), duration in centiseconds
NumFramesRounded(duration) == RoundHalfEven(duration * FPS, 100)

NumFrames(duration) == Max(1, (duration * FPS) \div 100)

\* frame i: (i % frames_per_syllable) / frames_per_syllable < 0.5 with
\* frames_per_syllable = num_frames / syllables
IsOpen(i, num_frames, syllables) == 2 * ((i * syllables) % num_frames) < num_frames

\* round(start + i / FPS, 3) in milliseconds
FrameTime(start, i) == start * 10 + RoundHalfEven(1000 * i, FPS)

Frames(word, start, end) ==
    LET duration == end - start
        num_frames == NumFrames(duration)
        syllables == effective_syllables(word, duration)
    IN  [ n \in 1..num_frames |->
            [ time |-> FrameTime(start, n - 1),
              image |-> IF IsOpen(n - 1, num_frames, syllables) THEN "open" ELSE "closed" ] ]

\* "if not word", a pose that is not in the registry, "if duration <= 0"
ReturnsNoFrames(in) == in.word = <<>> \/ ~in.pose_known \/ in.end - in.start <= 0

\* frames_per_syllable = num_frames / effective_syllables with zero syllables
DividesByZero(in) ==
    /\ ~count_syllables_raises(in.word)
    /\ effective_syllables(in.word, in.end - in.start) = 0

Letters == {"a", "e", "l", "7"}

AnimWords ==
    SeqsUpTo(Letters, MaxWordLen)
    \cup { <<" ">>, <<" ", " ", " ", " ">>, <<"A", "l", "e", " ">>, <<" ", "L", "a", "l", "e">> }

AnimInit ==
    /\ component = "anim"
    /\ pc = "call"
    /\ \E word \in AnimWords, start \in {0, 20}, duration \in 0..MaxDuration,
          pose_known \in BOOLEAN :
          anim_in = [word |-> word, start |-> start, end |-> start + duration,
                     pose_known |-> pose_known]
    /\ anim_out = [outcome |-> "pending", frames |-> <<>>]
    /\ AlignIdle
    /\ PoseIdle
    /\ VisualIdle
    /\ EngineIdle

\* the three early "return []"
AnimReturnEmpty ==
    /\ component = "anim"
    /\ pc = "call"
    /\ ReturnsNoFrames(anim_in)
    /\ anim_out' = [outcome |-> "returned", frames |-> <<>>]
    /\ pc' = "done"
    /\ UNCHANGED <<component, anim_in, alignVars, poseVars, visualVars>>
    /\ UNCHANGED engineVars

\* the call leaves by an exception
AnimRaise ==
    /\ component = "anim"
    /\ pc = "call"
    /\ ~ReturnsNoFrames(anim_in)
    /\ count_syllables_raises(anim_in.word) \/ DividesByZero(anim_in)
    /\ anim_out' = [outcome |-> IF count_syllables_raises(anim_in.word)
                                THEN "IndexError" ELSE "ZeroDivisionError",
                    frames |-> <<>>]
    /\ pc' = "done"
    /\ UNCHANGED <<component, anim_in, alignVars, poseVars, visualVars>>
    /\ UNCHANGED engineVars

\* "return frames"
AnimCreateFrames ==
    /\ component = "anim"
    /\ pc = "call"
    /\ ~ReturnsNoFrames(anim_in)
    /\ ~count_syllables_raises(anim_in.word)
    /\ ~DividesByZero(anim_in)
    /\ anim_out' = [outcome |-> "returned",
                    frames |-> Frames(anim_in.word, anim_in.start, anim_in.end)]
    /\ pc' = "done"
    /\ UNCHANGED <<component, anim_in, alignVars, poseVars, visualVars>>
    /\ UNCHANGED engineVars

AnimNext == AnimReturnEmpty \/ AnimRaise \/ AnimCreateFrames

SpecAnim == AnimInit /\ [][AnimNext]_vars

\* A call for a word that is spoken: a non-empty word of positive duration
\* whose pose is in the registry.
SpokenWordDone ==
    /\ component = "anim"
    /\ pc = "done"
    /\ anim_in.word # <<>>
    /\ anim_in.pose_known
    /\ anim_in.end - anim_in.start > 0

\* open/closed cycles of a frame list: the runs of consecutive "open" frames
CycleCount(frames) ==
    Cardinality({ n \in 1..Len(frames) :
                    /\ frames[n].image = "open"
                    /\ (n = 1 \/ frames[n - 1].image = "closed") })

\* C8 as stated: a returned frame list of a spoken word of duration d has
\* round(d * fps) frame events.
C8_FrameCountRounded ==
    (SpokenWordDone /\ anim_out.outcome = "returned") =>
        Len(anim_out.frames) = RoundHalfEven((anim_in.end - anim_in.start) * FPS, 100)

\* C8 amended: a returned frame list of a spoken word of duration d has
\* max(1, floor(d * fps)) frame events, one every 1/fps from the word's start.
C8_FrameCount ==
    (SpokenWordDone /\ anim_out.outcome = "returned") =>
        LET d == anim_in.end - anim_in.start
            count == IF d * FPS < 100 THEN 1 ELSE (d * FPS) \div 100
        IN  /\ Len(anim_out.frames) = count
            /\ \A n \in 1..Len(anim_out.frames) :
                  /\ anim_out.frames[n].time >= anim_in.start * 10
                  /\ 3 * (anim_out.frames[n].time - anim_in.start * 10) \in
                        ((n - 1) * 100 - 1)..((n - 1) * 100 + 1)

\* A 0.25 s word: 7 frames, where round(7.5) is 8.
C8_Witness ==
    /\ SpokenWordDone
    /\ anim_out.outcome = "returned"
    /\ anim_in.end - anim_in.start = 25
    /\ Len(anim_out.frames) = 7

\* C9: for every spoken word the call returns frame events whose number of
\* mouth open/closed cycles is at least 1, at most the word's syllable count,
\* and at most one cycle per 100 ms of duration (one cycle for a word shorter
\* than that).
C9_CyclesWithinSyllables ==
    SpokenWordDone =>
        /\ anim_out.outcome = "returned"
        /\ CycleCount(anim_out.frames) >= 1
        /\ CycleCount(anim_out.frames) <= count_syllables(anim_in.word)
        /\ CycleCount(anim_out.frames)
              <= Max(1, (anim_in.end - anim_in.start) \div MinSyllableDuration)

(***************************************************************************)
(* Visual asset schedule of one dialogue line:                             *)
(* ShortVideoRenderer._extract_visual_assets_from_dialogue, the body of    *)
(* "for idx, line in enumerate(dialogue)" (short_renderer.py).  The        *)
(* segment's start and end are whole time units; the scheduled times are   *)
(* kept in ticks of 1/(2 * num_assets) unit, in which the midpoint and the *)
(* asset duration are whole numbers.                                       *)
(***************************************************************************)
MaxAssets == 3         \* a dialogue line declares up to this many visual assets
MaxSegTime == 4        \* segment start and end lie between 0 and this

num_assets(in) == Len(in.resolved)

TicksPerUnit(in) == 2 * num_assets(in)

seg_end_ticks(in) == in.seg_end * TicksPerUnit(in)

\* midpoint = seg_start + (seg_end - seg_start) / 2
midpoint(in) ==
    in.seg_start * TicksPerUnit(in)
        + ((in.seg_end - in.seg_start) * TicksPerUnit(in)) \div 2

\* asset_duration = (seg_end - midpoint) / num_assets
asset_duration(in) == (seg_end_ticks(in) - midpoint(in)) \div num_assets(in)

\* start_time = midpoint + v_idx * asset_duration
AssetStartFromSegmentStart(in, v_idx) ==
    in.seg_start * TicksPerUnit(in) + v_idx * asset_duration(in)

AssetStart(in, v_idx) == midpoint(in) + v_idx * asset_duration(in)

\* end_time = start_time + asset_duration, seg_end for the last asset
AssetEnd(in, v_idx) ==
    IF v_idx = num_assets(in) - 1
    THEN seg_end_ticks(in)
    ELSE AssetStart(in, v_idx) + asset_duration(in)

\* "if not line_visual_assets: continue", and a line without a segment
LineSkipped(in) == in.resolved = <<>> \/ ~in.has_segment

VisualInit ==
    /\ component = "visual"
    /\ pc = "line"
    /\ \E resolved \in SeqsUpTo(BOOLEAN, MaxAssets), has_segment \in BOOLEAN,
          seg_start \in 0..MaxSegTime :
          \E seg_end \in seg_start..MaxSegTime :
              visual_in = [resolved |-> resolved, has_segment |-> has_segment,
                           seg_start |-> seg_start, seg_end |-> seg_end]
    /\ visual_out = [v_idx |-> 0, assets |-> <<>>]
    /\ AlignIdle
    /\ PoseIdle
    /\ AnimIdle
    /\ EngineIdle

\* the line declares no visual assets, or no timestamp segment belongs to it
VisualSkipLine ==
    /\ component = "visual"
    /\ pc = "line"
    /\ LineSkipped(visual_in)
    /\ pc' = "done"
    /\ UNCHANGED <<component, visualVars, alignVars, poseVars, animVars>>
    /\ UNCHANGED engineVars

\* "if image_path:" the asset gets its window
VisualScheduleAsset ==
    /\ component = "visual"
    /\ pc = "line"
    /\ ~LineSkipped(visual_in)
    /\ visual_out.v_idx < num_assets(visual_in)
    /\ visual_in.resolved[visual_out.v_idx + 1]
    /\ visual_out' =
          [v_idx |-> visual_out.v_idx + 1,
           assets |-> Append(visual_out.assets,
                             [v_idx |-> visual_out.v_idx,
                              start_time |-> AssetStart(visual_in, visual_out.v_idx),
                              end_time |-> AssetEnd(visual_in, visual_out.v_idx)])]
    /\ UNCHANGED <<component, pc, visual_in, alignVars, poseVars, animVars>>
    /\ UNCHANGED engineVars

\* "else: WARNING: No image found": the asset is skipped
VisualSkipAsset ==
    /\ component = "visual"
    /\ pc = "line"
    /\ ~LineSkipped(visual_in)
    /\ visual_out.v_idx < num_assets(visual_in)
    /\ ~visual_in.resolved[visual_out.v_idx + 1]
    /\ visual_out' = [visual_out EXCEPT !.v_idx = @ + 1]
    /\ UNCHANGED <<component, pc, visual_in, alignVars, poseVars, animVars>>
    /\ UNCHANGED engineVars

\* the loop over the line's assets ends
VisualLineDone ==
    /\ component = "visual"
    /\ pc = "line"
    /\ ~LineSkipped(visual_in)
    /\ visual_out.v_idx = num_assets(visual_in)
    /\ pc' = "done"
    /\ UNCHANGED <<component, visualVars, alignVars, poseVars, animVars>>
    /\ UNCHANGED engineVars

VisualNext == VisualSkipLine \/ VisualScheduleAsset \/ VisualSkipAsset \/ VisualLineDone

SpecVisual == VisualInit /\ [][VisualNext]_vars

\* A line with visual assets whose segment exists has been processed.
AssetLineDone ==
    /\ component = "visual"
    /\ pc = "done"
    /\ visual_in.resolved # <<>>
    /\ visual_in.has_segment

\* The segment's midpoint and end in ticks, from the segment's times alone.
MidpointTicks == num_assets(visual_in) * (visual_in.seg_start + visual_in.seg_end)
SegEndTicks == 2 * num_assets(visual_in) * visual_in.seg_end

Windows == visual_out.assets

\* The windows cover [midpoint, segment end] with no gap and no overlap.
WindowsPartition ==
    /\ Windows # <<>>
    /\ Windows[1].start_time = MidpointTicks
    /\ Windows[Len(Windows)].end_time = SegEndTicks
    /\ \A k \in 1..Len(Windows) : Windows[k].start_time <= Windows[k].end_time
    /\ \A k \in 1..(Len(Windows) - 1) : Windows[k].end_time = Windows[k + 1].start_time

\* C10 as stated: the windows scheduled for a segment that declares visual
\* assets, when there are any, are ordered, do not overlap and partition
\* [midpoint, segment end].
C10_WindowsPartition == (AssetLineDone /\ Windows # <<>>) => WindowsPartition

\* C10 amended: the windows scheduled for a segment are ordered,
\* non-overlapping sub-windows of [midpoint, segment end], the window of the
\* v-th declared asset being the v-th of num_assets equal slices; they
\* partition [midpoint, segment end] when every declared asset has an image.
C10_OrderedSubWindows ==
    AssetLineDone =>
        /\ \A k \in 1..Len(Windows) :
              /\ MidpointTicks <= Windows[k].start_time
              /\ Windows[k].start_time <= Windows[k].end_time
              /\ Windows[k].end_time <= SegEndTicks
              /\ num_assets(visual_in) * (Windows[k].start_time - MidpointTicks)
                    = Windows[k].v_idx * (SegEndTicks - MidpointTicks)
              /\ num_assets(visual_in) * (Windows[k].end_time - MidpointTicks)
                    = (Windows[k].v_idx + 1) * (SegEndTicks - MidpointTicks)
        /\ \A k \in 1..(Len(Windows) - 1) :
              Windows[k].end_time <= Windows[k + 1].start_time
        /\ (\A v \in 1..num_assets(visual_in) : visual_in.resolved[v]) => WindowsPartition

\* Three assets, the middle one without an image, over a segment of positive
\* duration: two windows with a gap between them.
C10_Witness ==
    /\ AssetLineDone
    /\ visual_in.resolved = <<TRUE, FALSE, TRUE>>
    /\ visual_in.seg_end > visual_in.seg_start
    /\ Len(Windows) = 2
    /\ Windows[1].end_time < Windows[2].start_time

(***************************************************************************)
(* The render run.  ShortVideoRenderer.render                              *)
(* (src/lds_mcp/tools/short_renderer.py:1985-2411) and                     *)
(* VideoAssembler._render_video (src/src/core/video_renderer.py:447-882)   *)
(* walk the frame indices, hand every frame to the encoder, flush it and   *)
(* add the audio.  Every call that can raise is a step that either         *)
(* succeeds or raises; a raise runs the function's handler in the same     *)
(* step.  Durations are in centiseconds.                                   *)
(***************************************************************************)
MaxAudioDuration == 14     \* audio durations 0 .. this many centiseconds

RenderFps == 30            \* SHORT_CONFIG["fps"], VideoConfig.fps

\* SHORT_CONFIG["gpu_encoding"], the only configuration a renderer is built with
gpu_enabled == TRUE
fallback_to_cpu == TRUE

\* int(audio_duration * self.fps), rounding up instead
TotalFramesCeiling(duration) == (duration * RenderFps + 99) \div 100

\* int(audio_duration * self.fps)
TotalFrames(duration) == (duration * RenderFps) \div 100

\* os.rename(src, dst) raises FileExistsError on Windows when dst exists
RenameRaises(platform, dst_file) == platform = "win32" /\ dst_file # "absent"

\* The "except Exception" handler of render: it reads output_container, which
\* is unbound (UnboundLocalError) until line 2080 has run, closes the container
\* and returns the error result.
ExceptHandler(r, fault) ==
    [r EXCEPT !.faults = Append(@, fault),
              !.output_container = IF @ = "open" THEN "closed" ELSE @,
              !.result = IF r.output_container = "unbound" THEN "raised" ELSE "error"]

\* The "finally" of _render_video closes the container; the exception propagates.
FinallyRaise(r, fault) ==
    [r EXCEPT !.faults = Append(@, fault),
              !.output_container = "closed",
              !.result = "raised"]

RenderInputs ==
    [ engine : {"ShortVideoRenderer", "VideoAssembler"},
      audio_duration : 0..MaxAudioDuration,
      platform : {"posix", "win32"},
      temp_file : {"absent", "stale"} ]

RenderInit ==
    /\ component = "render"
    /\ pc = "idle"
    /\ \E input \in RenderInputs :
          render = [ engine |-> input.engine,
                     audio_duration |-> input.audio_duration,
                     platform |-> input.platform,
                     output_container |-> "unbound",
                     use_gpu |-> FALSE,
                     video_codec |-> "none",
                     total_frames |-> -1,
                     presented |-> <<>>,
                     flushed |-> FALSE,
                     mux_started |-> FALSE,
                     ffmpeg |-> "not_run",
                     output_file |-> "absent",
                     temp_file |-> input.temp_file,
                     result |-> "none",
                     faults |-> <<>> ]
    /\ AlignIdle
    /\ PoseIdle
    /\ AnimIdle
    /\ VisualIdle
    /\ ToolIdle
    /\ execute = <<>>
    /\ image_cache = <<>>
    /\ captions = <<>>
    /\ renders = <<>>

RenderStays ==
    UNCHANGED <<component, alignVars, poseVars, animVars, visualVars, toolVars,
                execute, image_cache, captions, renders>>

IsShort == component = "render" /\ render.engine = "ShortVideoRenderer"
IsAssembler == component = "render" /\ render.engine = "VideoAssembler"

\* "import av", "from PIL import Image": an ImportError returns the error
\* result before the big try block is entered.
RenderImport ==
    /\ IsShort
    /\ pc = "idle"
    /\ \E imported \in BOOLEAN :
          IF imported
          THEN pc' = "prepare" /\ render' = render
          ELSE /\ pc' = "done"
               /\ render' = [render EXCEPT !.faults = Append(@, "import"),
                                           !.result = "error"]
    /\ RenderStays

\* Lines 2030-2076: the audio duration, the word list, the character images.
RenderPrepare ==
    /\ IsShort
    /\ pc = "prepare"
    /\ pc' = "container"
    /\ render' = render
    /\ RenderStays

\* Lines 2080-2081: output_container = None; output_container = av.open(.., 'w')
RenderCreateContainer ==
    /\ IsShort
    /\ pc = "container"
    /\ pc' = "stream"
    /\ render' = [render EXCEPT !.output_container = "open",
                                !.output_file = "incomplete"]
    /\ RenderStays

\* Lines 2083-2127: the hardware stream first; when add_stream raises for it
\* and fallback_to_cpu is set, the container is reopened and the software
\* stream is added.
RenderAddStream ==
    /\ IsShort
    /\ pc = "stream"
    /\ \E gpu_ok \in BOOLEAN :
          IF gpu_enabled /\ gpu_ok
          THEN /\ render' = [render EXCEPT !.use_gpu = TRUE, !.video_codec = "h264_nvenc"]
               /\ pc' = "setup"
          ELSE IF gpu_enabled /\ ~fallback_to_cpu
          THEN /\ render' = ExceptHandler(render, "gpu_init")
               /\ pc' = "done"
          ELSE /\ render' = [render EXCEPT
                               !.faults = IF gpu_enabled THEN Append(@, "gpu_init") ELSE @,
                               !.use_gpu = FALSE,
                               !.video_codec = "libx264"]
               /\ pc' = "setup"
    /\ RenderStays

\* Lines 2129-2173: the schedules, and total_frames = int(audio_duration * fps)
RenderSetup ==
    /\ IsShort
    /\ pc = "setup"
    /\ pc' = "frames"
    /\ render' = [render EXCEPT !.total_frames = TotalFrames(render.audio_duration)]
    /\ RenderStays

\* One iteration of "for frame_idx in range(total_frames)": resolve, composite,
\* frame.pts = frame_idx, encode.
RenderFrame ==
    /\ IsShort
    /\ pc = "frames"
    /\ Len(render.presented) < render.total_frames
    /\ pc' = pc
    /\ render' = [render EXCEPT !.presented = Append(@, Len(@))]
    /\ RenderStays

\* Lines 2260-2264, after the loop: "for packet in video_stream.encode()"
RenderFlush ==
    /\ IsShort
    /\ pc = "frames"
    /\ Len(render.presented) >= render.total_frames
    /\ pc' = "close"
    /\ render' = [render EXCEPT !.flushed = TRUE]
    /\ RenderStays

\* Line 2266: output_container.close()
RenderClose ==
    /\ IsShort
    /\ pc = "close"
    /\ pc' = "mux"
    /\ render' = [render EXCEPT !.output_container = "closed", !.output_file = "video"]
    /\ RenderStays

\* Lines 2269-2339: the video moves to the temporary name and ffmpeg starts.
RenderStartMux ==
    /\ IsShort
    /\ pc = "mux"
    /\ IF RenameRaises(render.platform, render.temp_file)
       THEN /\ render' = ExceptHandler(render, "rename")
            /\ pc' = "done"
       ELSE \E started \in BOOLEAN :
              IF started
              THEN /\ render' = [render EXCEPT !.temp_file = "video",
                                               !.output_file = "absent",
                                               !.mux_started = TRUE]
                   /\ pc' = "muxing"
              ELSE /\ render' = ExceptHandler(
                                   [render EXCEPT !.temp_file = "video",
                                                  !.output_file = "absent"], "popen")
                   /\ pc' = "done"
    /\ RenderStays

\* Lines 2342-2392: ffmpeg ends.  On a timeout or a non-zero exit the video goes
\* back to the output path and the result is "partial"; ffmpeg may have left an
\* output file of its own behind.  On success the temporary file is removed.
RenderMuxEnds ==
    /\ IsShort
    /\ pc = "muxing"
    /\ pc' = "done"
    /\ \E outcome \in {"ok", "failed", "timeout"}, left \in {"absent", "incomplete"} :
          IF outcome = "ok"
          THEN render' = [render EXCEPT !.ffmpeg = "ok",
                                        !.output_file = "muxed",
                                        !.temp_file = "absent",
                                        !.result = "success"]
          ELSE IF RenameRaises(render.platform, left)
          THEN render' = ExceptHandler(
                            [render EXCEPT !.ffmpeg = outcome, !.output_file = left],
                            "rename_back")
          ELSE render' = [render EXCEPT !.ffmpeg = outcome,
                                        !.faults = Append(@, outcome),
                                        !.output_file = "video",
                                        !.temp_file = "absent",
                                        !.result = "partial"]
    /\ RenderStays

\* Any call of the try block raises: the handler runs.  In the "container" step
\* line 2080 has run before av.open raises, so the container is None there.
RenderRaise ==
    /\ IsShort
    /\ pc \in {"prepare", "container", "stream", "setup", "frames", "close"}
    /\ pc' = "done"
    /\ render' = ExceptHandler(
                    [render EXCEPT !.output_container =
                                      IF pc = "container" THEN "none" ELSE @], pc)
    /\ RenderStays

\* _render_video, lines 450-451 and 484-497: both containers are opened and the
\* video stream is added with the configured codec, hevc_nvenc.
AssemblerAddStream ==
    /\ IsAssembler
    /\ pc = "idle"
    /\ \E gpu_ok \in BOOLEAN :
          IF gpu_ok
          THEN /\ render' = [render EXCEPT
                               !.output_container = "open",
                               !.output_file = "incomplete",
                               !.use_gpu = TRUE,
                               !.video_codec = "hevc_nvenc",
                               !.total_frames = TotalFrames(render.audio_duration)]
               /\ pc' = "frames"
          ELSE /\ render' = FinallyRaise([render EXCEPT !.output_file = "incomplete"],
                                         "gpu_init")
               /\ pc' = "done"
    /\ RenderStays

\* _render_video, lines 684-857: one iteration of "for i in range(total_frames)"
AssemblerFrame ==
    /\ IsAssembler
    /\ pc = "frames"
    /\ Len(render.presented) < render.total_frames
    /\ pc' = pc
    /\ render' = [render EXCEPT !.presented = Append(@, Len(@))]
    /\ RenderStays

\* _render_video, lines 859-882: flush, copy the audio packets, close.
AssemblerFinish ==
    /\ IsAssembler
    /\ pc = "frames"
    /\ Len(render.presented) >= render.total_frames
    /\ pc' = "done"
    /\ render' = [render EXCEPT !.flushed = TRUE,
                                !.mux_started = TRUE,
                                !.output_container = "closed",
                                !.output_file = "muxed",
                                !.result = "returned"]
    /\ RenderStays

\* _render_video: a call inside the try raises; "finally" closes the containers.
AssemblerRaise ==
    /\ IsAssembler
    /\ pc = "frames"
    /\ pc' = "done"
    /\ render' = FinallyRaise(render, pc)
    /\ RenderStays

RenderNext ==
    \/ RenderImport
    \/ RenderPrepare
    \/ RenderCreateContainer
    \/ RenderAddStream
    \/ RenderSetup
    \/ RenderFrame
    \/ RenderFlush
    \/ RenderClose
    \/ RenderStartMux
    \/ RenderMuxEnds
    \/ RenderRaise
    \/ AssemblerAddStream
    \/ AssemblerFrame
    \/ AssemblerFinish
    \/ AssemblerRaise

SpecRender == RenderInit /\ [][RenderNext]_vars

(***************************************************************************)
(* Claims about the render run, checked under SpecRender.                  *)
(***************************************************************************)
Faulted(fault) == \E j \in 1..Len(render.faults) : render.faults[j] = fault

\* C11: a render presents the frame indices 0, 1, 2, ... to the encoder in
\* increasing order, each once, and when the encoder is flushed their number is
\* floor(audio_duration * fps): n with n <= audio_duration * fps < n + 1.
C11_FramesCountedInOrder ==
    component = "render" =>
        /\ \A j \in 1..Len(render.presented) : render.presented[j] = j - 1
        /\ render.flushed =>
              /\ Len(render.presented) * 100 <= render.audio_duration * RenderFps
              /\ render.audio_duration * RenderFps < (Len(render.presented) + 1) * 100

C11_Witness ==
    /\ component = "render"
    /\ render.result = "success"
    /\ render.audio_duration = 14
    /\ render.presented = <<0, 1, 2, 3>>

\* C12: ShortVideoRenderer.render flushes the encoder only after the last frame,
\* starts the audio mux only after the flush and the container close, returns
\* success only after the mux succeeded, and ends every fault other than a
\* recovered encoder fallback or a failed mux in the error result.
C12_RenderStateOrder ==
    IsShort =>
        /\ render.flushed => Len(render.presented) = render.total_frames
        /\ render.mux_started => render.flushed /\ render.output_container = "closed"
        /\ render.result = "success" => render.ffmpeg = "ok" /\ render.faults \in {<<>>, <<"gpu_init">>}
        /\ (pc = "done" /\ \E j \in 1..Len(render.faults) :
                              render.faults[j] \notin {"gpu_init", "failed", "timeout"})
               => render.result = "error"

\* C13: when the audio mux cannot be started, fails or times out, the encoded
\* video-only file is at the output path and the result is "partial".
C13_MuxFailureKeepsVideo ==
    (IsShort /\ pc = "done"
        /\ (render.ffmpeg \in {"failed", "timeout"} \/ Faulted("popen")))
    => (render.result = "partial" /\ render.output_file = "video")

\* C14: when the hardware encoder stream cannot be initialised, the render goes
\* on with the software encoder, and without another fault it presents every
\* frame and does not end in a failure.
C14_HardwareFallback ==
    (component = "render" /\ Faulted("gpu_init")) =>
        /\ render.video_codec = "libx264"
        /\ ~render.use_gpu
        /\ render.faults = <<"gpu_init">> => render.result \notin {"error", "raised"}

(***************************************************************************)
(* execute_render (src/lds_mcp/tools/short_renderer.py:766-1053): the      *)
(* checks that precede a render, and for every frame of the render the     *)
(* background image that _create_frame resolves (lines 2132-2145 and       *)
(* 1830-1836, with ImageLoader.get_image and get_default_image).  The      *)
(* faults of the render itself are the subject of SpecRender; here a       *)
(* render that starts presents all its frames.  Frame times are counted    *)
(* in frames.                                                              *)
(***************************************************************************)
ExecFrames == 6            \* total_frames of the render that execute_render starts

\* CHARACTER_MAPPING.get(char, char)
CHARACTER_MAPPING(char) ==
    CASE char \in {"Sister Faith", "Analyst", "analyst"} -> "Analyst"
      [] char \in {"Brother Marcus", "Skeptic", "skeptic"} -> "Skeptic"
      [] OTHER -> char

\* f"{char.lower()}_front"
front_pose(char) ==
    CASE char = "Analyst" -> "analyst_front"
      [] char = "Skeptic" -> "skeptic_front"
      [] char = "sister_faith" -> "sister_faith_front"
      [] char = "Narrator" -> "narrator_front"
      [] OTHER -> "unknown_front"

\* CHARACTER_ALIASES.get(character, character.lower())
character_key(character) ==
    CASE character \in {"Sister Faith", "sister_faith", "Analyst", "analyst"} -> "analyst"
      [] character \in {"Brother Marcus", "brother_marcus", "Skeptic", "skeptic"} -> "skeptic"
      [] character = "Narrator" -> "narrator"
      [] OTHER -> "unknown"

NoImage == "None"

\* ImageLoader.get_image: the pose's image, None for a pose the catalog lacks.
\* (A loaded and validated catalog has the files of all its poses.)
get_image(catalog, pose_id) == IF pose_id \in catalog THEN pose_id ELSE NoImage

\* ImageLoader.get_default_image: the default pose of a standard character
get_default_image(catalog, character) ==
    CASE character_key(character) = "analyst" -> get_image(catalog, "analyst_front")
      [] character_key(character) = "skeptic" -> get_image(catalog, "skeptic_front")
      [] OTHER -> NoImage

\* "if seg_start <= t <= seg_end", with the upper end left out
SegmentContainsOpen(seg, t) == seg.start <= t /\ t < seg.end

\* "if seg_start <= t <= seg_end"
SegmentContains(seg, t) == seg.start <= t /\ t <= seg.end

\* get_pose_and_character: the first segment that contains t from position n
\* on gives the character; "Analyst" when none does.
RECURSIVE get_character(_, _, _)
get_character(segments, t, n) ==
    IF n > Len(segments) THEN "Analyst"
    ELSE IF SegmentContains(segments[n], t) THEN CHARACTER_MAPPING(segments[n].character)
    ELSE get_character(segments, t, n + 1)

\* _create_frame, lines 1830-1836: the pose's image, else the default image
create_frame(catalog, segments, t) ==
    LET character == get_character(segments, t, 1)
        pose_id == front_pose(character)
        character_image == get_image(catalog, pose_id)
    IN  [ t |-> t,
          character |-> character,
          pose_id |-> pose_id,
          character_image |-> IF character_image # NoImage THEN character_image
                              ELSE get_default_image(catalog, character) ]

\* validate_render_prerequisites: the errors it reports
prerequisite_errors(found) ==
    IF ~found.script THEN {"script"}
    ELSE (IF found.audio THEN {} ELSE {"audio"})
         \cup (IF found.character_images THEN {} ELSE {"character_images"})

\* ImageLoader._load_catalog raises FileNotFoundError without the catalog file;
\* here it never does
CatalogLoadsAlways(found) == TRUE

CatalogLoads(found) == found.catalog_file

\* validate_catalog()["valid"], here whatever files are missing
CatalogValidAlways(found) == TRUE

CatalogValid(found) == found.missing_files = {}

CatalogPoses == {"analyst_front", "skeptic_front"}

SegmentCharacters == {"Analyst", "Brother Marcus", "sister_faith", "Narrator"}

\* Two segments with a pause between them and silence after the last
ExecSegments(c1, c2) ==
    << [character |-> c1, start |-> 0, end |-> 1],
       [character |-> c2, start |-> 3, end |-> 4] >>

\* What execute_render finds on disk.  Without a catalog file there are no poses.
ExecFound ==
    { f \in [ av : BOOLEAN, script : BOOLEAN, audio : BOOLEAN,
              character_images : BOOLEAN,
              timestamps : {"present", "generated", "not_generated"},
              catalog_file : BOOLEAN,
              catalog : SUBSET CatalogPoses,
              missing_files : SUBSET CatalogPoses ] :
          /\ f.missing_files \subseteq f.catalog
          /\ ~f.catalog_file => f.catalog = {} }

ExecStays ==
    UNCHANGED <<component, alignVars, poseVars, animVars, visualVars, toolVars,
                render, image_cache, captions, renders>>

ExecInit ==
    /\ component = "execute"
    /\ pc = "dependencies"
    /\ \E found \in ExecFound, c1 \in SegmentCharacters, c2 \in SegmentCharacters :
          execute = [ found |-> found,
                      segments |-> ExecSegments(c1, c2),
                      frames |-> <<>>,
                      status |-> "none",
                      names |-> {} ]
    /\ AlignIdle
    /\ PoseIdle
    /\ AnimIdle
    /\ VisualIdle
    /\ ToolIdle
    /\ render = <<>>
    /\ image_cache = <<>>
    /\ captions = <<>>
    /\ renders = <<>>

\* The structured failure: its status and the inputs its message names
ExecFail(status, names) ==
    /\ pc' = "done"
    /\ execute' = [execute EXCEPT !.status = status, !.names = names]

\* Lines 797-835: "Check dependencies FIRST (fail fast)"
ExecCheckDependencies ==
    /\ component = "execute"
    /\ pc = "dependencies"
    /\ IF execute.found.av
       THEN pc' = "prerequisites" /\ execute' = execute
       ELSE ExecFail("error", {"dependencies"})
    /\ ExecStays

\* Lines 846-882: validate_render_prerequisites, "STOP EARLY if validation fails"
ExecValidatePrerequisites ==
    /\ component = "execute"
    /\ pc = "prerequisites"
    /\ IF prerequisite_errors(execute.found) = {}
       THEN pc' = "inputs" /\ execute' = execute
       ELSE ExecFail("validation_failed", prerequisite_errors(execute.found))
    /\ ExecStays

\* Lines 884-940: script and audio are looked up again, missing timestamps are
\* generated, the data is loaded.
ExecLoadInputs ==
    /\ component = "execute"
    /\ pc = "inputs"
    /\ IF ~execute.found.script THEN ExecFail("error", {"script"})
       ELSE IF ~execute.found.audio THEN ExecFail("error", {"audio"})
       ELSE IF execute.found.timestamps = "not_generated"
       THEN ExecFail("error", {"timestamps"})
       ELSE pc' = "catalog" /\ execute' = execute
    /\ ExecStays

\* Lines 942-956: ImageLoader(base_dir, preload=True)
ExecLoadCatalog ==
    /\ component = "execute"
    /\ pc = "catalog"
    /\ IF CatalogLoads(execute.found)
       THEN pc' = "validate_catalog" /\ execute' = execute
       ELSE ExecFail("error", {"pose_catalog"})
    /\ ExecStays

\* Lines 958-970: image_loader.validate_catalog()
ExecValidateCatalog ==
    /\ component = "execute"
    /\ pc = "validate_catalog"
    /\ IF CatalogValid(execute.found)
       THEN pc' = "render" /\ execute' = execute
       ELSE ExecFail("error", {"catalog_files"})
    /\ ExecStays

\* One frame of the render that lines 972-1020 start
ExecRenderFrame ==
    /\ component = "execute"
    /\ pc = "render"
    /\ Len(execute.frames) < ExecFrames
    /\ pc' = pc
    /\ execute' = [execute EXCEPT
                     !.frames = Append(@, create_frame(execute.found.catalog,
                                                       execute.segments, Len(@)))]
    /\ ExecStays

\* Lines 1021-1040: the render returned "success"
ExecReturnSuccess ==
    /\ component = "execute"
    /\ pc = "render"
    /\ Len(execute.frames) >= ExecFrames
    /\ pc' = "done"
    /\ execute' = [execute EXCEPT !.status = "success"]
    /\ ExecStays

ExecNext ==
    \/ ExecCheckDependencies
    \/ ExecValidatePrerequisites
    \/ ExecLoadInputs
    \/ ExecLoadCatalog
    \/ ExecValidateCatalog
    \/ ExecRenderFrame
    \/ ExecReturnSuccess

SpecExecute == ExecInit /\ [][ExecNext]_vars

(***************************************************************************)
(* Claims about execute_render, checked under SpecExecute.                 *)
(***************************************************************************)
ExecDone == component = "execute" /\ pc = "done"

MissingInputs ==
    (IF execute.found.script THEN {} ELSE {"script"})
    \cup (IF execute.found.audio THEN {} ELSE {"audio"})
    \cup (IF execute.found.catalog_file THEN {} ELSE {"pose_catalog"})

\* The checks ahead of the catalog's validation all pass
CatalogReached ==
    /\ execute.found.av
    /\ execute.found.script
    /\ execute.found.audio
    /\ execute.found.character_images
    /\ execute.found.timestamps # "not_generated"
    /\ execute.found.catalog_file

SpeakerAt(t) ==
    IF \E n \in 1..Len(execute.segments) :
           execute.segments[n].start <= t /\ t <= execute.segments[n].end
    THEN LET n == CHOOSE n \in 1..Len(execute.segments) :
                     execute.segments[n].start <= t /\ t <= execute.segments[n].end
         IN  execute.segments[n].character
    ELSE "Analyst"

MaxCacheSize == 2          \* max_size ranges over 0 .. this
MaxCacheOps == 5           \* operations per behaviour

CacheKeys == {"a.png", "b.png", "c.png_COVER"}
CacheValues == {"arr1", "arr2"}

\* key in self.cache
InCache(cache, key) == \E n \in 1..Len(cache) : cache[n].key = key

Position(cache, key) == CHOOSE n \in 1..Len(cache) : cache[n].key = key

Without(cache, key) == SelectSeq(cache, LAMBDA entry : entry.key # key)

\* self.cache.move_to_end(key)
move_to_end(cache, key) == Append(Without(cache, key), cache[Position(cache, key)])

\* get without its move_to_end
GetOrderKept(cache, key) == cache

\* the order of the entries after get(key) found the key
GetOrder(cache, key) == move_to_end(cache, key)

\* self.cache[key] = value: in place for a key of the dict, at the end otherwise
assign(cache, key, value) ==
    IF InCache(cache, key)
    THEN [n \in 1..Len(cache) |->
             IF cache[n].key = key THEN [key |-> key, value |-> value] ELSE cache[n]]
    ELSE Append(cache, [key |-> key, value |-> value])

\* the dict after set(key, value), before the size check
SetOrder(cache, key, value) ==
    assign(IF InCache(cache, key) THEN move_to_end(cache, key) ELSE cache, key, value)

LRUInit ==
    /\ component = "lru"
    /\ pc = "ready"
    /\ \E max_size \in 0..MaxCacheSize :
          image_cache = [ max_size |-> max_size,
                          cache |-> <<>>,
                          uses |-> <<>>,
                          evicted |-> "None",
                          returned |-> "None" ]
    /\ AlignIdle
    /\ PoseIdle
    /\ AnimIdle
    /\ VisualIdle
    /\ ToolIdle
    /\ render = <<>>
    /\ execute = <<>>
    /\ captions = <<>>
    /\ renders = <<>>

LRUStays ==
    UNCHANGED <<component, pc, alignVars, poseVars, animVars, visualVars, toolVars,
                render, execute, captions, renders>>

\* LRUCache.get(key), also reached as cache[key]
LRUGet ==
    /\ component = "lru"
    /\ Len(image_cache.uses) < MaxCacheOps
    /\ \E key \in CacheKeys :
          IF InCache(image_cache.cache, key)
          THEN image_cache' =
                  [image_cache EXCEPT
                     !.cache = GetOrder(@, key),
                     !.uses = Append(@, key),
                     !.evicted = "None",
                     !.returned = image_cache.cache[Position(image_cache.cache, key)].value]
          ELSE image_cache' = [image_cache EXCEPT !.evicted = "None", !.returned = "None"]
    /\ LRUStays

\* LRUCache.set(key, value), also reached as cache[key] = value
LRUSet ==
    /\ component = "lru"
    /\ Len(image_cache.uses) < MaxCacheOps
    /\ \E key \in CacheKeys, value \in CacheValues :
          LET stored == SetOrder(image_cache.cache, key, value)
              overflow == Len(stored) > image_cache.max_size
          IN  image_cache' =
                 [image_cache EXCEPT
                    !.cache = IF overflow THEN Tail(stored) ELSE stored,
                    !.uses = Append(@, key),
                    !.evicted = IF overflow THEN Head(stored).key ELSE "None",
                    !.returned = "None"]
    /\ LRUStays

LRUNext == LRUGet \/ LRUSet

SpecLRU == LRUInit /\ [][LRUNext]_vars

(***************************************************************************)
(* Claim about the LRUCache, checked under SpecLRU.                        *)
(***************************************************************************)
\* The position in the history of the last use of key, 0 when it was never used
LastUse(key) ==
    LET at == { j \in 1..Len(image_cache.uses) : image_cache.uses[j] = key }
    IN  IF at = {} THEN 0 ELSE CHOOSE j \in at : \A h \in at : h <= j

\* C18: the cache never holds more than max_size entries, nor one key twice,
\* and the entry a set evicted was used less recently than every entry that
\* stayed, a use being a set or a get that found its key.
C18_BoundedAndEvictsLeastRecent ==
    component = "lru" =>
        /\ Len(image_cache.cache) <= image_cache.max_size
        /\ \A m, n \in 1..Len(image_cache.cache) :
              image_cache.cache[m].key = image_cache.cache[n].key => m = n
        /\ image_cache.evicted # "None" =>
              \A n \in 1..Len(image_cache.cache) :
                  /\ image_cache.cache[n].key # image_cache.evicted
                  /\ LastUse(image_cache.evicted) < LastUse(image_cache.cache[n].key)

\* a.png was set first and read again before the overflow: b.png is evicted
C18_Witness ==
    /\ component = "lru"
    /\ image_cache.max_size = 2
    /\ image_cache.uses = <<"a.png", "b.png", "a.png", "c.png_COVER">>
    /\ image_cache.evicted = "b.png"
    /\ Len(image_cache.cache) = 2
    /\ image_cache.cache[1].key = "a.png"

(***************************************************************************)
(* CaptionGenerator (src/src/utils/captionGenerator.py).  video_plan is    *)
(* the sequence of the word_data of the plan, in segment order.  A bitmap  *)
(* is the record of the text drawn on it and of the order in which it was  *)
(* created, which stands for the identity of the PIL image.  rendered and  *)
(* shown are histories kept beside the object: the texts drawn so far and  *)
(* the bitmaps handed out so far.                                          *)
(***************************************************************************)
MaxWords == 2              \* words of a video plan
MaxCaptionTime == 2        \* word times are 0 .. this; queries go one beyond

CaptionTexts == {"amen", "faith"}

\* a start or an end that is None
NoTime == -1

\* word_data with a text and both times, and one of each kind the filter drops
CaptionWords ==
    { [start |-> s, end |-> e, text |-> x] :
          s \in 0..MaxCaptionTime, e \in 0..MaxCaptionTime, x \in CaptionTexts }
    \cup { [start |-> 0, end |-> MaxCaptionTime, text |-> ""],
           [start |-> NoTime, end |-> MaxCaptionTime, text |-> "amen"],
           [start |-> 0, end |-> NoTime, text |-> "faith"] }

\* if text and start is not None and end is not None
IsCaption(word_data) ==
    /\ word_data.text # ""
    /\ word_data.start # NoTime
    /\ word_data.end # NoTime

\* the place list.sort gives cap among entries already sorted: after its equals
InsertByStart(sorted, cap) ==
    SelectSeq(sorted, LAMBDA c : c.start <= cap.start)
        \o <<cap>>
        \o SelectSeq(sorted, LAMBDA c : c.start > cap.start)

RECURSIVE SortedByStart(_)
\* captions.sort(key=lambda x: x["start"])
SortedByStart(caps) ==
    IF caps = <<>>
    THEN <<>>
    ELSE InsertByStart(SortedByStart(SubSeq(caps, 1, Len(caps) - 1)), caps[Len(caps)])

\* the timeline left in the order of the plan
TimelineUnsorted(caps) == caps

\* the order of the timeline
TimelineOrder(caps) == SortedByStart(caps)

\* _prepare_captions_timeline
prepare_captions_timeline(video_plan) == TimelineOrder(SelectSeq(video_plan, IsCaption))

\* active_caption = None
NoCaption == [start |-> NoTime, end |-> NoTime, text |-> ""]

RECURSIVE active_caption(_, _, _)
\* the scan of get_caption_image from entry n on: the first entry that holds
\* time, nothing once an entry starts after time
active_caption(timeline, time, n) ==
    IF n > Len(timeline)
    THEN NoCaption
    ELSE IF timeline[n].start <= time /\ time <= timeline[n].end
         THEN timeline[n]
         ELSE IF timeline[n].start > time
              THEN NoCaption
              ELSE active_caption(timeline, time, n + 1)

CaptionPlans == UNION { [1..n -> CaptionWords] : n \in 0..MaxWords }

\* the None that stands for no image
NoBitmap == [text |-> "", id |-> 0]

CaptionInit ==
    /\ component = "caption"
    /\ pc = "ready"
    /\ \E video_plan \in CaptionPlans :
          captions = [ video_plan |-> video_plan,
                       captions_timeline |-> prepare_captions_timeline(video_plan),
                       caption_cache |-> {},
                       current_caption_text |-> "",
                       current_caption_image |-> NoBitmap,
                       rendered |-> <<>>,
                       shown |-> {},
                       time |-> -1,
                       returned |-> NoBitmap,
                       from |-> "none" ]
    /\ AlignIdle
    /\ PoseIdle
    /\ AnimIdle
    /\ VisualIdle
    /\ ToolIdle
    /\ render = <<>>
    /\ execute = <<>>
    /\ image_cache = <<>>
    /\ renders = <<>>

CaptionStays ==
    UNCHANGED <<component, pc, alignVars, poseVars, animVars, visualVars, toolVars,
                render, execute, image_cache, renders>>

\* what get_caption_image(time) returns and leaves in the object, active being
\* the entry its scan found
CaptionAnswer(c, time, active) ==
    IF active = NoCaption
    THEN [c EXCEPT !.time = time, !.returned = NoBitmap, !.from = "none"]
    ELSE IF active.text = c.current_caption_text /\ c.current_caption_image # NoBitmap
         THEN [c EXCEPT !.time = time,
                        !.returned = c.current_caption_image,
                        !.shown = @ \cup {c.current_caption_image},
                        !.from = "current"]
         ELSE IF \E b \in c.caption_cache : b.text = active.text
              THEN LET cached == CHOOSE b \in c.caption_cache : b.text = active.text
                   IN  [c EXCEPT !.time = time,
                                 !.current_caption_text = active.text,
                                 !.current_caption_image = cached,
                                 !.returned = cached,
                                 !.shown = @ \cup {cached},
                                 !.from = "cache"]
              ELSE LET overlay == [text |-> active.text, id |-> Len(c.rendered) + 1]
                   IN  [c EXCEPT !.time = time,
                                 !.caption_cache = @ \cup {overlay},
                                 !.current_caption_text = active.text,
                                 !.current_caption_image = overlay,
                                 !.rendered = Append(@, active.text),
                                 !.returned = overlay,
                                 !.shown = @ \cup {overlay},
                                 !.from = "drawn"]

\* CaptionGenerator.get_caption_image(time)
GetCaptionImage ==
    /\ component = "caption"
    /\ \E time \in 0..(MaxCaptionTime + 1) :
          captions' = CaptionAnswer(captions, time,
                                    active_caption(captions.captions_timeline, time, 1))
    /\ CaptionStays

CaptionNext == GetCaptionImage

SpecCaption == CaptionInit /\ [][CaptionNext]_vars

(***************************************************************************)
(* Claim about the caption lookup, checked under SpecCaption.              *)
(***************************************************************************)
\* The entries of the plan that are captions and hold the time t
EntriesAt(t) ==
    { n \in 1..Len(captions.video_plan) :
          /\ IsCaption(captions.video_plan[n])
          /\ captions.video_plan[n].start <= t
          /\ t <= captions.video_plan[n].end }

\* C19: the answer to a query at time t is the bitmap of the text of an entry
\* with start <= t <= end when there is such an entry and nothing otherwise;
\* no two bitmaps handed out carry the same text, and no text is drawn twice.
C19_CaptionOfActiveEntry ==
    (component = "caption" /\ captions.time >= 0) =>
        /\ EntriesAt(captions.time) = {} => captions.returned = NoBitmap
        /\ EntriesAt(captions.time) # {} =>
              /\ captions.returned # NoBitmap
              /\ \E n \in EntriesAt(captions.time) :
                    captions.returned.text = captions.video_plan[n].text
        /\ \A b1, b2 \in captions.shown : b1.text = b2.text => b1 = b2
        /\ \A m, n \in 1..Len(captions.rendered) :
              captions.rendered[m] = captions.rendered[n] => m = n

\* the plan lists the later word first; "amen" was drawn first, "faith" after
\* it, and a later query for "amen" got the first bitmap back from the cache
C19_Witness ==
    /\ component = "caption"
    /\ captions.video_plan = << [start |-> 2, end |-> 2, text |-> "faith"],
                                [start |-> 0, end |-> 1, text |-> "amen"] >>
    /\ captions.rendered = <<"amen", "faith">>
    /\ captions.time = 1
    /\ captions.from = "cache"
    /\ captions.returned = [text |-> "amen", id |-> 1]

(***************************************************************************)
(* Two execute_render calls running at once (the event loop hands each     *)
(* render to a thread, short_renderer.py:1000).  LOG_FILE and STATUS_FILE  *)
(* are module globals; the output and temporary paths come from            *)
(* output_filename.  The log is the sequence of the renders that wrote its *)
(* lines, a file holds the number of the render whose data it contains     *)
(* (0: no file).  clobbered is a history kept beside the program: what a   *)
(* step of one render destroyed of the other while the other was running.  *)
(***************************************************************************)
Renders == {1, 2}

Other(r) == CHOOSE o \in Renders : o # r

\* output_filename: the default and another one
OutputFilenames == {"short_video", "clip"}

\* output_dir / f"{output_filename}.mp4"
OutputPath(output_filename) == [name |-> output_filename, temp |-> FALSE]

\* output_path.replace(".mp4", "_temp.mp4")
TempOutput(output_filename) == [name |-> output_filename, temp |-> TRUE]

Paths == { OutputPath(f) : f \in OutputFilenames } \cup { TempOutput(f) : f \in OutputFilenames }

NoFile == 0

ConcInit ==
    /\ component = "concurrent"
    /\ pc = "running"
    /\ \E names \in [Renders -> OutputFilenames], platform \in {"posix", "win32"} :
          renders = [ output_filename |-> names,
                      platform |-> platform,
                      at |-> [r \in Renders |-> "start"],
                      log_file |-> <<>>,
                      status_file |-> 0,
                      files |-> [p \in Paths |-> NoFile],
                      clobbered |-> {} ]
    /\ AlignIdle
    /\ PoseIdle
    /\ AnimIdle
    /\ VisualIdle
    /\ ToolIdle
    /\ render = <<>>
    /\ execute = <<>>
    /\ image_cache = <<>>
    /\ captions = <<>>

ConcStays ==
    UNCHANGED <<component, pc, alignVars, poseVars, animVars, visualVars, toolVars,
                render, execute, image_cache, captions>>

\* The render has started and has not returned
Running(r) == renders.at[r] \notin {"start", "done", "error"}

\* what == "log", "temp" or "output": the step of r destroys that of the other
\* render, which is running
Clobbers(r, what, destroys) ==
    IF destroys /\ Running(Other(r)) THEN {[by |-> r, what |-> what]} ELSE {}

\* the file at path holds data of the other render
HoldsOther(r, path) == renders.files[path] = Other(r)

FileState(path) == IF renders.files[path] = NoFile THEN "absent" ELSE "stale"

\* clear_log(): open(LOG_FILE, "w") and the header line
ClearLog(log_file, r) == <<r>>

\* Lines 784-795: clear_log(), update_render_status("starting") and the first
\* log lines.
ConcStart(r) ==
    /\ component = "concurrent"
    /\ renders.at[r] = "start"
    /\ renders' =
          [renders EXCEPT
             !.at[r] = "open",
             !.log_file = ClearLog(@, r),
             !.status_file = r,
             !.clobbered = @ \cup Clobbers(r, "log",
                               \E n \in 1..Len(renders.log_file) :
                                   renders.log_file[n] = Other(r))]
    /\ ConcStays

\* Lines 977-1010 and 2079-2081: the output path, av.open(output_path, 'w').
ConcOpen(r) ==
    /\ component = "concurrent"
    /\ renders.at[r] = "open"
    /\ LET output_path == OutputPath(renders.output_filename[r])
       IN  renders' =
              [renders EXCEPT
                 !.at[r] = "close",
                 !.log_file = Append(@, r),
                 !.status_file = r,
                 !.files[output_path] = r,
                 !.clobbered = @ \cup Clobbers(r, "output", HoldsOther(r, output_path))]
    /\ ConcStays

\* Lines 2171-2270: the frames, the flush, output_container.close().
ConcClose(r) ==
    /\ component = "concurrent"
    /\ renders.at[r] = "close"
    /\ renders' = [renders EXCEPT !.at[r] = "rename",
                                  !.log_file = Append(@, r),
                                  !.status_file = r]
    /\ ConcStays

\* Lines 2272-2273: os.rename(output_path, temp_output); a missing source or,
\* on Windows, an existing destination raises and the render returns "error".
ConcRenameToTemp(r) ==
    /\ component = "concurrent"
    /\ renders.at[r] = "rename"
    /\ LET output_path == OutputPath(renders.output_filename[r])
           temp_output == TempOutput(renders.output_filename[r])
       IN  IF \/ renders.files[output_path] = NoFile
              \/ RenameRaises(renders.platform, FileState(temp_output))
           THEN renders' = [renders EXCEPT !.at[r] = "error",
                                           !.log_file = Append(@, r)]
           ELSE renders' =
                   [renders EXCEPT
                      !.at[r] = "mux",
                      !.files[output_path] = NoFile,
                      !.files[temp_output] = renders.files[output_path],
                      !.clobbered = @ \cup Clobbers(r, "temp", HoldsOther(r, temp_output))
                                      \cup Clobbers(r, "output", HoldsOther(r, output_path))]
    /\ ConcStays

\* Lines 2275-2369: ffmpeg -y -i temp_output ... output_path.  When it fails the
\* video goes back with os.rename(temp_output, output_path).
ConcMux(r) ==
    /\ component = "concurrent"
    /\ renders.at[r] = "mux"
    /\ LET output_path == OutputPath(renders.output_filename[r])
           temp_output == TempOutput(renders.output_filename[r])
       IN  \E succeeds \in BOOLEAN :
              IF succeeds /\ renders.files[temp_output] # NoFile
              THEN renders' =
                      [renders EXCEPT
                         !.at[r] = "cleanup",
                         !.log_file = Append(@, r),
                         !.files[output_path] = r,
                         !.clobbered = @ \cup Clobbers(r, "output", HoldsOther(r, output_path))]
              ELSE IF \/ renders.files[temp_output] = NoFile
                      \/ RenameRaises(renders.platform, FileState(output_path))
                   THEN renders' = [renders EXCEPT !.at[r] = "error",
                                                   !.log_file = Append(@, r)]
                   ELSE renders' =
                           [renders EXCEPT
                              !.at[r] = "done",
                              !.log_file = Append(@, r),
                              !.files[temp_output] = NoFile,
                              !.files[output_path] = renders.files[temp_output],
                              !.clobbered = @ \cup Clobbers(r, "output",
                                                            HoldsOther(r, output_path))]
    /\ ConcStays

\* Lines 2371-2392: the temporary file is removed when it exists; "complete".
ConcCleanup(r) ==
    /\ component = "concurrent"
    /\ renders.at[r] = "cleanup"
    /\ LET temp_output == TempOutput(renders.output_filename[r])
       IN  renders' =
              [renders EXCEPT
                 !.at[r] = "done",
                 !.log_file = Append(@, r),
                 !.status_file = r,
                 !.files[temp_output] = NoFile,
                 !.clobbered = @ \cup Clobbers(r, "temp", HoldsOther(r, temp_output))]
    /\ ConcStays

ConcNext ==
    \E r \in Renders :
        \/ ConcStart(r)
        \/ ConcOpen(r)
        \/ ConcClose(r)
        \/ ConcRenameToTemp(r)
        \/ ConcMux(r)
        \/ ConcCleanup(r)

SpecConcurrent == ConcInit /\ [][ConcNext]_vars

(***************************************************************************)
(* Claim about concurrent renders, checked under SpecConcurrent.           *)
(***************************************************************************)
\* C20: no step of a render erases, truncates or overwrites the log lines, the
\* temporary file or the output of the other render while that one is running.
C20_ConcurrentRendersShareNothing ==
    component = "concurrent" => renders.clobbered = {}

(***************************************************************************)
(* Floating images: ShortVideoRenderer._calculate_floating_image_schedule  *)
(* and _get_floating_image_opacity (short_renderer.py:1133-1254), with the *)
(* opening asset as _extract_visual_assets_from_dialogue builds it         *)
(* (1360-1386).  Times are whole ticks of 1/16 s.  The uniform             *)
(* distribution divides by num_images + 1: its items are kept in ticks     *)
(* divided by num_images + 1, the item's "scale".                          *)
(***************************************************************************)
MaxFloatTime == 4          \* segment and asset times: 0 .. this many quarter seconds
MaxFloatAudio == 12        \* audio_duration: the last three whole seconds up to this

FloatTicksPerSecond == 16
QuarterSecond == FloatTicksPerSecond \div 4

display_duration == 5
skip_first_seconds == 5
skip_last_seconds == 5

\* floating_config fade_in / fade_out: none, 0.25 s, 0.5 s (the shipped value)
FadeDurations == {0, 4, 8}

\* the opening asset of _extract_visual_assets_from_dialogue: from 0.0 to
\* end_time = first_seg_start + (first_seg_duration / 2)
OpeningAsset(first_seg_start, first_seg_end) ==
    [ timed |-> TRUE,
      start_time |-> 0,
      end_time |-> first_seg_start + (first_seg_end - first_seg_start) \div 2,
      is_opening |-> TRUE ]

OpeningAssets ==
    { OpeningAsset(QuarterSecond * s, QuarterSecond * e) :
          s \in 0..MaxFloatTime, e \in 0..MaxFloatTime }

\* an asset of a dialogue line, with its window
LineAssets ==
    { [timed |-> TRUE, start_time |-> QuarterSecond * s, end_time |-> QuarterSecond * e,
       is_opening |-> FALSE] : s \in 0..MaxFloatTime, e \in 0..MaxFloatTime }

\* an asset without "start_time" and "end_time"
UntimedAsset == [timed |-> FALSE, start_time |-> 0, end_time |-> 0, is_opening |-> FALSE]

WellTimed(asset) == asset.start_time <= asset.end_time

FloatAssetLists ==
    LET first == { a \in OpeningAssets \cup LineAssets : WellTimed(a) } \cup {UntimedAsset}
        later == { a \in LineAssets : WellTimed(a) } \cup {UntimedAsset}
    IN  {<<>>} \cup { <<a>> : a \in first } \cup { <<a, b>> : a \in first, b \in later }

\* asset_fade_in: 0.0 for an opening asset
asset_fade_in(asset, fade_in) == IF asset.is_opening THEN 0 ELSE fade_in

\* the check of line 1176 left out
FadesNeverOverlap(fade_in_end, fade_out_start) == FALSE

\* "if fade_in_end > fade_out_start"
FadesOverlap(fade_in_end, fade_out_start) == fade_in_end > fade_out_start

\* the item of an asset that carries its times (lines 1158-1192)
TimedItem(asset, fade_in, fade_out) ==
    LET fade_in_end == asset.start_time + asset_fade_in(asset, fade_in)
        fade_out_start == asset.end_time - fade_out
        mid == (asset.start_time + asset.end_time) \div 2
        overlap == FadesOverlap(fade_in_end, fade_out_start)
    IN  [ start_time |-> asset.start_time,
          end_time |-> asset.end_time,
          fade_in_end |-> IF overlap THEN mid ELSE fade_in_end,
          fade_out_start |-> IF overlap THEN mid ELSE fade_out_start,
          is_opening |-> asset.is_opening,
          scale |-> 1 ]

\* the item of asset i (0-based) of num_images in the uniform distribution
\* (lines 1208-1229); every time is multiplied by scale = num_images + 1
UniformItem(i, num_images, audio_duration, fade_in, fade_out) ==
    LET scale == num_images + 1
        second == FloatTicksPerSecond * scale
        available_start == skip_first_seconds * second
        available_end == (audio_duration - skip_last_seconds) * second
        spacing == (available_end - available_start) \div scale
        centred == available_start + spacing * (i + 1) - (display_duration * second) \div 2
        start_time == Max(available_start,
                          Min(centred, available_end - display_duration * second))
        end_time == start_time + display_duration * second
    IN  [ start_time |-> start_time,
          end_time |-> end_time,
          fade_in_end |-> start_time + fade_in * scale,
          fade_out_start |-> end_time - fade_out * scale,
          is_opening |-> FALSE,
          scale |-> scale ]

\* An opacity is the fraction num / den, clamped to [0, 1]
Clamp01(num, den) ==
    IF num <= 0 THEN [num |-> 0, den |-> 1]
    ELSE IF num >= den THEN [num |-> 1, den |-> 1]
    ELSE [num |-> num, den |-> den]

\* _get_floating_image_opacity(current_time, schedule_item), current_time in
\* the units of the item
get_floating_image_opacity(current_time, item) ==
    IF current_time < item.start_time \/ current_time > item.end_time
    THEN Clamp01(0, 1)
    ELSE IF current_time < item.fade_in_end
         THEN Clamp01(current_time - item.start_time, item.fade_in_end - item.start_time)
         ELSE IF current_time > item.fade_out_start
              THEN Clamp01(item.end_time - current_time, item.end_time - item.fade_out_start)
              ELSE Clamp01(1, 1)

FloatInit ==
    /\ component = "floating"
    /\ pc = "call"
    /\ \E visual_assets \in FloatAssetLists, fade_in \in FadeDurations,
          fade_out \in FadeDurations, audio_duration \in (MaxFloatAudio - 2)..MaxFloatAudio :
          floating = [ visual_assets |-> visual_assets,
                       fade_in |-> fade_in,
                       fade_out |-> fade_out,
                       audio_duration |-> audio_duration,
                       i |-> 0,
                       schedule |-> <<>>,
                       current_time |-> -1,
                       item |-> 0,
                       opacity |-> Clamp01(0, 1) ]
    /\ AlignIdle
    /\ PoseIdle
    /\ AnimIdle
    /\ VisualIdle
    /\ render = <<>>
    /\ execute = <<>>
    /\ image_cache = <<>>
    /\ captions = <<>>
    /\ renders = <<>>
    /\ finder = <<>>
    /\ mouth = <<>>
    /\ flat = <<>>
    /\ sfx = <<>>
    /\ progress = <<>>

FloatStays ==
    UNCHANGED <<component, alignVars, poseVars, animVars, visualVars,
                render, execute, image_cache, captions, renders,
                finder, mouth, flat, sfx, progress>>

\* "if not floating_config.get('enabled') or not visual_assets: return []"
FloatReturnEmpty ==
    /\ component = "floating"
    /\ pc = "call"
    /\ floating.visual_assets = <<>>
    /\ pc' = "returned"
    /\ UNCHANGED floating
    /\ FloatStays

\* "for asset in visual_assets": an asset with its times gets its item
FloatScheduleTimed ==
    /\ component = "floating"
    /\ pc = "call"
    /\ floating.i < Len(floating.visual_assets)
    /\ floating.visual_assets[floating.i + 1].timed
    /\ floating' =
          [floating EXCEPT
             !.i = @ + 1,
             !.schedule = Append(@, TimedItem(floating.visual_assets[floating.i + 1],
                                              floating.fade_in, floating.fade_out))]
    /\ UNCHANGED pc
    /\ FloatStays

\* "else: Asset missing timing": nothing is appended
FloatSkipUntimed ==
    /\ component = "floating"
    /\ pc = "call"
    /\ floating.i < Len(floating.visual_assets)
    /\ ~floating.visual_assets[floating.i + 1].timed
    /\ floating' = [floating EXCEPT !.i = @ + 1]
    /\ UNCHANGED pc
    /\ FloatStays

\* Lines 1201-1231: after the loop; the uniform distribution when no asset
\* carried its times and the window after the skipped seconds is not empty.
FloatReturn ==
    /\ component = "floating"
    /\ pc = "call"
    /\ floating.visual_assets # <<>>
    /\ floating.i = Len(floating.visual_assets)
    /\ floating' =
          [floating EXCEPT
             !.schedule =
                 IF /\ floating.schedule = <<>>
                    /\ floating.audio_duration - skip_last_seconds > skip_first_seconds
                 THEN [n \in 1..Len(floating.visual_assets) |->
                          UniformItem(n - 1, Len(floating.visual_assets),
                                      floating.audio_duration,
                                      floating.fade_in, floating.fade_out)]
                 ELSE @]
    /\ pc' = "returned"
    /\ FloatStays

\* render asks for the opacity of a scheduled item at the time of a frame
FloatOpacity ==
    /\ component = "floating"
    /\ pc = "returned"
    /\ \E n \in 1..Len(floating.schedule), t \in 0..(2 * MaxFloatTime) :
          LET item == floating.schedule[n]
              current_time == t * (QuarterSecond \div 2) * item.scale
          IN  floating' = [floating EXCEPT
                              !.current_time = current_time,
                              !.item = n,
                              !.opacity = get_floating_image_opacity(current_time, item)]
    /\ UNCHANGED pc
    /\ FloatStays

FloatNext ==
    \/ FloatReturnEmpty
    \/ FloatScheduleTimed
    \/ FloatSkipUntimed
    \/ FloatReturn
    \/ FloatOpacity

SpecFloating == FloatInit /\ [][FloatNext]_vars

C22_OpeningInstant ==
    (/\ component = "floating"
     /\ floating.item > 0
     /\ floating.current_time = 0) =>
        (floating.schedule[floating.item].is_opening =>
            /\ floating.schedule[floating.item].start_time = 0
            /\ floating.opacity = Clamp01(1, 1))

(***************************************************************************)
(* VideoAssembler._find_active_segment (src/src/core/video_renderer.py:    *)
(* 406-445) and the frame loop that keeps its index in current_seg_idx     *)
(* (681-719).  A plan is the sequence of the [start, end] of its segments; *)
(* frame i is at time i.  Indices are 0-based as in the code; "no segment" *)
(* is the index -1.                                                        *)
(***************************************************************************)
MaxPlanSegs == 3           \* segments of a video plan
MaxFindTime == 4           \* segment times and frame times: 0 .. this

NoSegment == -1

RECURSIVE bisect_right(_, _, _, _)
\* bisect.bisect_right(a, x), with lo and hi as the loop keeps them
bisect_right(a, x, lo, hi) ==
    IF lo < hi
    THEN LET mid == (lo + hi) \div 2
         IN  IF x < a[mid + 1]
             THEN bisect_right(a, x, lo, mid)
             ELSE bisect_right(a, x, mid + 1, hi)
    ELSE lo

\* the insertion point itself taken for the index
BisectNotBefore(video_plan, time) ==
    bisect_right([k \in 1..Len(video_plan) |-> video_plan[k].start], time, 0, Len(video_plan))

\* idx = bisect.bisect_right(segment_starts, time) - 1
BisectIndex(video_plan, time) ==
    bisect_right([k \in 1..Len(video_plan) |-> video_plan[k].start], time, 0, Len(video_plan)) - 1

\* seg.get("start", 0) <= time <= seg.get("end", 0), idx 0-based
Holds(video_plan, idx, time) ==
    video_plan[idx + 1].start <= time /\ time <= video_plan[idx + 1].end

\* lines 433-445: the binary search and what it returns
find_by_bisect(time, video_plan) ==
    LET idx == BisectIndex(video_plan, time)
    IN  IF idx < 0
        THEN [segment |-> NoSegment, index |-> 0]
        ELSE IF idx < Len(video_plan) /\ Holds(video_plan, idx, time)
             THEN [segment |-> idx, index |-> idx]
             ELSE [segment |-> NoSegment, index |-> Max(0, idx)]

\* _find_active_segment(time, video_plan, start_idx): (segment, index)
find_active_segment(time, video_plan, start_idx) ==
    LET n == Len(video_plan)
    IN  IF n = 0
        THEN [segment |-> NoSegment, index |-> 0]
        ELSE IF start_idx < n /\ Holds(video_plan, start_idx, time)
             THEN [segment |-> start_idx, index |-> start_idx]
             ELSE IF /\ start_idx < n
                     /\ start_idx + 1 < n
                     /\ Holds(video_plan, start_idx + 1, time)
                  THEN [segment |-> start_idx + 1, index |-> start_idx + 1]
                  ELSE find_by_bisect(time, video_plan)

\* plans ordered by start whose segments do not run into the next one:
\* start <= end <= the next start
OrderedPlans ==
    LET segments == { seg \in [start : 0..MaxFindTime, end : 0..MaxFindTime] :
                         seg.start <= seg.end }
    IN  { plan \in UNION { [1..n -> segments] : n \in 0..MaxPlanSegs } :
             \A k \in 1..(Len(plan) - 1) : plan[k].end <= plan[k + 1].start }

FindInit ==
    /\ component = "find"
    /\ pc = "loop"
    /\ \E video_plan \in OrderedPlans :
          finder = [ video_plan |-> video_plan,
                     i |-> 0,
                     current_seg_idx |-> 0,
                     previous_idx |-> 0,
                     t |-> -1,
                     target_seg |-> NoSegment,
                     probe |-> [time |-> -1, start_idx |-> 0,
                                segment |-> NoSegment, index |-> 0] ]
    /\ AlignIdle
    /\ PoseIdle
    /\ AnimIdle
    /\ VisualIdle
    /\ render = <<>>
    /\ execute = <<>>
    /\ image_cache = <<>>
    /\ captions = <<>>
    /\ renders = <<>>
    /\ floating = <<>>
    /\ mouth = <<>>
    /\ flat = <<>>
    /\ sfx = <<>>
    /\ progress = <<>>

FindStays ==
    UNCHANGED <<component, pc, alignVars, poseVars, animVars, visualVars,
                render, execute, image_cache, captions, renders,
                floating, mouth, flat, sfx, progress>>

\* one turn of "for i in range(total_frames)": target_seg, current_seg_idx =
\* self._find_active_segment(t, video_plan, current_seg_idx)
FindFrame ==
    /\ component = "find"
    /\ finder.i <= MaxFindTime
    /\ LET found == find_active_segment(finder.i, finder.video_plan, finder.current_seg_idx)
       IN  finder' = [finder EXCEPT !.i = @ + 1,
                                    !.t = finder.i,
                                    !.previous_idx = finder.current_seg_idx,
                                    !.current_seg_idx = found.index,
                                    !.target_seg = found.segment]
    /\ FindStays

\* a call with any time and any start_idx, outside the loop
FindCall ==
    /\ component = "find"
    /\ \E time \in 0..MaxFindTime, start_idx \in 0..Len(finder.video_plan) :
          LET found == find_active_segment(time, finder.video_plan, start_idx)
          IN  finder' = [finder EXCEPT !.probe = [time |-> time, start_idx |-> start_idx,
                                                  segment |-> found.segment,
                                                  index |-> found.index]]
    /\ FindStays

FindNext == FindFrame \/ FindCall

SpecFind == FindInit /\ [][FindNext]_vars

(***************************************************************************)
(* Claim about the segment lookup, checked under SpecFind.                 *)
(***************************************************************************)
\* The 0-based indices of the segments that hold the time t
Holding(t) ==
    { k \in 0..(Len(finder.video_plan) - 1) : Holds(finder.video_plan, k, t) }

\* The first segment a scan of the whole plan finds, -1 when there is none
LinearScan(t) ==
    IF Holding(t) = {} THEN NoSegment
    ELSE CHOOSE k \in Holding(t) : \A h \in Holding(t) : k <= h

\* No time belongs to two segments of the plan
Disjoint ==
    \A k \in 1..(Len(finder.video_plan) - 1) :
        finder.video_plan[k].end < finder.video_plan[k + 1].start

\* The segment answered for time t holds t, and there is one whenever a
\* segment holds t; it is the one of the linear scan when no time belongs to
\* two segments
AnswersLikeScan(t, segment, index) ==
    /\ (Holding(t) = {}) <=> (segment = NoSegment)
    /\ segment # NoSegment => segment \in Holding(t) /\ index = segment
    /\ Disjoint => segment = LinearScan(t)

\* C23: for a plan ordered by start whose segments do not overlap, the lookup
\* returns a segment that holds t whenever there is one, for every start_idx,
\* the segment of a full linear scan; in the frame loop the index it returns
\* never decreases.
C23_FindMatchesScan ==
    component = "find" =>
        /\ finder.probe.time >= 0 =>
              AnswersLikeScan(finder.probe.time, finder.probe.segment, finder.probe.index)
        /\ finder.t >= 0 =>
              /\ AnswersLikeScan(finder.t, finder.target_seg, finder.current_seg_idx)
              /\ finder.previous_idx <= finder.current_seg_idx

\* the loop is at the third segment, found by the binary search after a gap,
\* and a call at an earlier time with that start_idx found the first segment
C23_Witness ==
    /\ component = "find"
    /\ finder.video_plan = << [start |-> 0, end |-> 0], [start |-> 1, end |-> 1],
                              [start |-> 3, end |-> 4] >>
    /\ finder.t = 3
    /\ finder.previous_idx = 1
    /\ finder.current_seg_idx = 2
    /\ finder.probe.time = 0
    /\ finder.probe.start_idx = 2
    /\ finder.probe.segment = 0

(***************************************************************************)
(* ShortVideoRenderer._should_mouth_be_open (short_renderer.py:1625-1718)  *)
(* for one word.  Times are whole milliseconds; the word starts at 0.  The *)
(* per-syllable duration is the fraction word_duration / syllable_count:   *)
(* the model keeps syllable_count and compares by cross-multiplication.    *)
(***************************************************************************)
MaxWordMs == 250           \* word_duration ranges over 0 .. this
MaxTextLen == 3            \* characters of a word

min_syllable_ms == 60
max_syllable_ms == 120
OpenRatioPercent == 55
PunctuationClosePercent == 80
\* the time between two frames, in whole milliseconds
FrameStepMs == 1000 \div RenderFps

MouthChars == {"a", "t", "."}
MouthVowels == {"a"}
Punctuation == {"."}

MouthTexts == UNION { [1..n -> MouthChars] : n \in 0..MaxTextLen }

\* vowel_count = sum(1 for c in word_text if c in vowels)
vowel_count(word_text) == Cardinality({ k \in 1..Len(word_text) : word_text[k] \in MouthVowels })

\* lines 1689-1694: the cycles added when a syllable is longer than max_dur
CyclesWhenSlow(syllable_count, word_duration) ==
    IF word_duration > max_syllable_ms * syllable_count
    THEN syllable_count
            * Max(1, word_duration \div (max_syllable_ms * syllable_count))
    ELSE syllable_count

\* lines 1696-1700: the cycles left when a syllable is shorter than min_dur
CyclesWhenFast(syllable_count, word_duration) ==
    IF word_duration < min_syllable_ms * syllable_count /\ syllable_count > 1
    THEN Max(1, word_duration \div min_syllable_ms)
    ELSE syllable_count

\* the syllable_count whose syllable_duration_sec is finally used
final_syllable_count(word_text, word_duration) ==
    CyclesWhenFast(CyclesWhenSlow(Max(1, vowel_count(word_text)), word_duration),
                   word_duration)

\* lines 1702-1713: position_in_syllable < open_ratio
OpenInCycle(time_in_word, word_duration, syllable_count) ==
    LET current_syllable ==
            Min((time_in_word * syllable_count) \div word_duration, syllable_count - 1)
        position_times_duration == time_in_word * syllable_count - current_syllable * word_duration
    IN  100 * Min(word_duration, Max(0, position_times_duration))
            < OpenRatioPercent * word_duration

MouthInit ==
    /\ component = "mouth"
    /\ pc = "call"
    /\ \E word_text \in MouthTexts, word_duration \in 0..MaxWordMs :
          mouth = [ word_text |-> word_text,
                    word_duration |-> word_duration,
                    current_time |-> 0,
                    syllable_count |-> 0,
                    open |-> FALSE,
                    path |-> "none" ]
    /\ AlignIdle
    /\ PoseIdle
    /\ AnimIdle
    /\ VisualIdle
    /\ render = <<>>
    /\ execute = <<>>
    /\ image_cache = <<>>
    /\ captions = <<>>
    /\ renders = <<>>
    /\ floating = <<>>
    /\ finder = <<>>
    /\ flat = <<>>
    /\ sfx = <<>>
    /\ progress = <<>>

MouthStays ==
    UNCHANGED <<component, alignVars, poseVars, animVars, visualVars,
                render, execute, image_cache, captions, renders,
                floating, finder, flat, sfx, progress>>

\* the frame times asked for: every FrameStepMs up to one step after the word
MouthTimes == { FrameStepMs * k : k \in 0..(mouth.word_duration \div FrameStepMs + 1) }

EndsWithPunctuation(word_text) ==
    word_text # <<>> /\ word_text[Len(word_text)] \in Punctuation

\* "if not current_word: return False"
MouthNotSpeaking ==
    /\ component = "mouth"
    /\ pc = "call"
    /\ \E current_time \in MouthTimes :
          /\ current_time > mouth.word_duration
          /\ mouth' = [mouth EXCEPT !.current_time = current_time,
                                    !.open = FALSE, !.path = "not_speaking"]
    /\ pc' = "returned"
    /\ MouthStays

\* "if word_duration <= 0: return False"
MouthNoDuration ==
    /\ component = "mouth"
    /\ pc = "call"
    /\ mouth.word_duration <= 0
    /\ mouth' = [mouth EXCEPT !.current_time = 0, !.open = FALSE, !.path = "no_duration"]
    /\ pc' = "returned"
    /\ MouthStays

\* the last 20 % of a word that ends with punctuation: "return False"
MouthPunctuationClose ==
    /\ component = "mouth"
    /\ pc = "call"
    /\ mouth.word_duration > 0
    /\ EndsWithPunctuation(mouth.word_text)
    /\ \E current_time \in MouthTimes :
          /\ current_time <= mouth.word_duration
          /\ 100 * current_time > PunctuationClosePercent * mouth.word_duration
          /\ mouth' = [mouth EXCEPT !.current_time = current_time,
                                    !.open = FALSE, !.path = "punctuation"]
    /\ pc' = "returned"
    /\ MouthStays

\* the syllable mode: lines 1671-1718
MouthSyllable ==
    /\ component = "mouth"
    /\ pc = "call"
    /\ mouth.word_duration > 0
    /\ \E current_time \in MouthTimes :
          /\ current_time <= mouth.word_duration
          /\ ~(/\ EndsWithPunctuation(mouth.word_text)
               /\ 100 * current_time > PunctuationClosePercent * mouth.word_duration)
          /\ LET syllable_count == final_syllable_count(mouth.word_text, mouth.word_duration)
             IN  mouth' = [mouth EXCEPT
                              !.current_time = current_time,
                              !.syllable_count = syllable_count,
                              !.open = OpenInCycle(current_time, mouth.word_duration,
                                                   syllable_count),
                              !.path = "syllable"]
    /\ pc' = "returned"
    /\ MouthStays

MouthNext == MouthNotSpeaking \/ MouthNoDuration \/ MouthPunctuationClose \/ MouthSyllable

SpecMouth == MouthInit /\ [][MouthNext]_vars

(***************************************************************************)
(* Claim about the mouth cycle, checked under SpecMouth.                   *)
(***************************************************************************)
\* C24: for a word at least min_syllable_ms long, the per-syllable duration
\* finally used, word_duration / syllable_count, lies within
\* [min_syllable_ms, max_syllable_ms].
C24_SyllableDurationClamped ==
    (/\ component = "mouth"
     /\ mouth.path = "syllable"
     /\ mouth.word_duration >= min_syllable_ms) =>
        /\ min_syllable_ms * mouth.syllable_count <= mouth.word_duration
        /\ mouth.word_duration <= max_syllable_ms * mouth.syllable_count

(***************************************************************************)
(* Claim about short words, checked under SpecAnim.                        *)
(***************************************************************************)
\* C25: every frame event returned for a word of positive duration below the
\* short-word threshold (80 ms) uses the mouth-open image.
C25_ShortWordHoldsOpen ==
    (/\ SpokenWordDone
     /\ anim_out.outcome = "returned"
     /\ anim_in.end - anim_in.start < HoldOpenBelow) =>
        \A n \in 1..Len(anim_out.frames) : anim_out.frames[n].image = "open"

(***************************************************************************)
(* The flat word list of generate_timestamps_from_audio                    *)
(* (src/src/core/whisper.py:496-565) for the words of one ASR segment.     *)
(* Token times are whole hundredths of a second.  Of                       *)
(* expand_number_to_words only the number of words is kept; for a unit     *)
(* with digits, which num2words spells out, it is any number up to         *)
(* MaxExpanded.  round(x, 2) is exact except when x lies halfway           *)
(* between two hundredths, where the floating-point value decides: there   *)
(* the model takes either neighbour, the same one for the two expressions  *)
(* that are the same floating-point computation (the end of word 0 and the *)
(* start of word 1).                                                       *)
(***************************************************************************)
MaxTokens == 3             \* ASR tokens of the segment
MaxExpanded == 4           \* words a unit expands to

AsrTokens == {"the", "-", "$2", "$cash", "496", "million"}

TokenDurations == {1, 2}

\* word_text.startswith('$') and (len(word_text) < 2 or word_text[-1] in ',.'
\* or word_text[1].isdigit())
StartsCurrency(word_text) == word_text \in {"$2"}

\* re.match(r'^[0-9,.]+$', next_word), or a magnitude word
Continues(next_word) == next_word \in {"496", "million"}

RECURSIVE MergeEnd(_, _)
\* next_idx when the inner while loop ends, having started at next_idx
MergeEnd(words_list, next_idx) ==
    IF next_idx < Len(words_list) /\ Continues(words_list[next_idx + 1].word)
    THEN MergeEnd(words_list, next_idx + 1)
    ELSE next_idx

\* the index after the unit that starts at token i (0-based)
UnitEnd(words_list, i) ==
    IF StartsCurrency(words_list[i + 1].word) THEN MergeEnd(words_list, i + 1) ELSE i + 1

\* len(expand_number_to_words(word_text)) for the unit that starts at token i:
\* nothing for a token without a letter or digit, one word for a token without
\* digits, the words of the number otherwise, with "dollars" after a '$'
ExpandedCounts(words_list, i) ==
    LET first == words_list[i + 1].word
    IN  IF first = "-" THEN {0}
        ELSE IF first \in {"the", "$cash", "million"} THEN {1}
        ELSE IF first = "496" THEN 1..MaxExpanded
        ELSE 2..MaxExpanded

\* round(x, 2) of x = num / den hundredths; up decides when x is halfway
Round2(num, den, up) ==
    LET q == num \div den
        r == num % den
    IN  IF 2 * r < den THEN q
        ELSE IF 2 * r > den THEN q + 1
        ELSE IF up THEN q + 1 ELSE q

\* lines 552-563: the words of a unit from start_time to end_time
ExpandedWords(start_time, end_time, num_new_words, first_up, start_up, end_up) ==
    LET original_duration == Max(0, end_time - start_time)
    IN  [ n \in 1..num_new_words |->
            [ start |-> Round2(start_time * num_new_words + (n - 1) * original_duration,
                               num_new_words,
                               IF n = 2 THEN first_up ELSE start_up),
              end |-> Round2(start_time * num_new_words + n * original_duration,
                             num_new_words,
                             IF n = 1 THEN first_up ELSE end_up) ] ]

RECURSIVE SumUpTo(_, _)
SumUpTo(durations, k) == IF k = 0 THEN 0 ELSE durations[k] + SumUpTo(durations, k - 1)

\* token lists whose tokens follow one another in time, from time 0
TokenLists ==
    { [k \in 1..Len(texts) |->
          [ word |-> texts[k],
            start |-> SumUpTo(durations, k - 1),
            end |-> SumUpTo(durations, k) ]] :
          texts \in UNION { [1..n -> AsrTokens] : n \in 0..MaxTokens },
          durations \in [1..MaxTokens -> TokenDurations] }

FlatInit ==
    /\ component = "flat"
    /\ pc = "segment"
    /\ \E words_list \in TokenLists :
          flat = [ words_list |-> words_list,
                   i |-> 0,
                   consumed |-> [k \in 1..Len(words_list) |-> 0],
                   flat_words |-> 0,
                   unit |-> [first |-> 0, next_idx |-> 0, words |-> <<>>] ]
    /\ AlignIdle
    /\ PoseIdle
    /\ AnimIdle
    /\ VisualIdle
    /\ render = <<>>
    /\ execute = <<>>
    /\ image_cache = <<>>
    /\ captions = <<>>
    /\ renders = <<>>
    /\ floating = <<>>
    /\ finder = <<>>
    /\ mouth = <<>>
    /\ sfx = <<>>
    /\ progress = <<>>

FlatStays ==
    UNCHANGED <<component, alignVars, poseVars, animVars, visualVars,
                render, execute, image_cache, captions, renders,
                floating, finder, mouth, sfx, progress>>

\* the tokens from i to next_idx - 1 have been read into a unit
Consume(consumed, i, next_idx) ==
    [k \in 1..Len(consumed) |-> IF i < k /\ k <= next_idx THEN consumed[k] + 1 ELSE consumed[k]]

\* one turn of "while i < len(words_list)" whose unit expands to no word:
\* "if not expanded_words: i += 1; continue"
FlatSkipUnit ==
    /\ component = "flat"
    /\ pc = "segment"
    /\ flat.i < Len(flat.words_list)
    /\ 0 \in ExpandedCounts(flat.words_list, flat.i)
    /\ LET next_idx == UnitEnd(flat.words_list, flat.i)
       IN  flat' = [flat EXCEPT
                       !.i = next_idx,
                       !.consumed = Consume(@, flat.i, next_idx),
                       !.unit = [first |-> flat.i, next_idx |-> next_idx, words |-> <<>>]]
    /\ UNCHANGED pc
    /\ FlatStays

\* one turn whose unit expands to num_new_words words, appended to flat_words
FlatExpandUnit ==
    /\ component = "flat"
    /\ pc = "segment"
    /\ flat.i < Len(flat.words_list)
    /\ \E num_new_words \in ExpandedCounts(flat.words_list, flat.i) \ {0},
          first_up \in BOOLEAN,
          start_up \in BOOLEAN, end_up \in BOOLEAN :
          LET next_idx == UnitEnd(flat.words_list, flat.i)
              words == ExpandedWords(flat.words_list[flat.i + 1].start,
                                     flat.words_list[next_idx].end,
                                     num_new_words, first_up, start_up, end_up)
          IN  flat' = [flat EXCEPT
                          !.i = next_idx,
                          !.consumed = Consume(@, flat.i, next_idx),
                          !.flat_words = @ + num_new_words,
                          !.unit = [first |-> flat.i, next_idx |-> next_idx,
                                    words |-> words]]
    /\ UNCHANGED pc
    /\ FlatStays

\* the while loop ends
FlatSegmentDone ==
    /\ component = "flat"
    /\ pc = "segment"
    /\ flat.i >= Len(flat.words_list)
    /\ pc' = "done"
    /\ UNCHANGED flat
    /\ FlatStays

FlatNext == FlatSkipUnit \/ FlatExpandUnit \/ FlatSegmentDone

SpecFlat == FlatInit /\ [][FlatNext]_vars

(***************************************************************************)
(* Claim about the flat word list, checked under SpecFlat.                 *)
(***************************************************************************)
\* The unit read last runs from a '$' token through every directly following
\* continuation token, and is one token otherwise
UnitAbsorbs ==
    LET first == flat.unit.first
        next_idx == flat.unit.next_idx
    IN  /\ first < next_idx
        /\ \A k \in (first + 2)..next_idx :
              /\ StartsCurrency(flat.words_list[first + 1].word)
              /\ Continues(flat.words_list[k].word)
        /\ (/\ StartsCurrency(flat.words_list[first + 1].word)
            /\ next_idx < Len(flat.words_list))
              => ~Continues(flat.words_list[next_idx + 1].word)

\* The words of the unit read last split [first start, last end] into equal
\* consecutive sub-intervals
UnitSplitEvenly ==
    LET words == flat.unit.words
        n == Len(words)
    IN  n > 0 =>
           /\ words[1].start = flat.words_list[flat.unit.first + 1].start
           /\ words[n].end = flat.words_list[flat.unit.next_idx].end
           /\ \A k \in 1..n : words[k].start <= words[k].end
           /\ \A k \in 1..(n - 1) : words[k].end = words[k + 1].start
           /\ \A k \in 1..n : words[k].end - words[k].start = words[1].end - words[1].start

\* C26: a '$' token absorbs the directly following numeric-continuation and
\* magnitude tokens into one unit; every token is consumed exactly once; the
\* words expanded from a unit split the interval from the first token's start
\* to the last absorbed token's end into equal, consecutive, non-overlapping
\* sub-intervals.
C26_UnitsConsumedAndSplit ==
    component = "flat" =>
        /\ flat.unit.next_idx > 0 => UnitAbsorbs /\ UnitSplitEvenly
        /\ \A k \in 1..Len(flat.words_list) :
              flat.consumed[k] = (IF k <= flat.i THEN 1 ELSE 0)
        /\ pc = "done" => flat.i = Len(flat.words_list)

(***************************************************************************)
(* Transition sound effects: VideoAssembler._prepare_audio, part 3         *)
(* (src/src/core/video_renderer.py:253-294).  Image start times and the    *)
(* duration of the effect are whole tenths of a second; a clip start is in *)
(* twentieths, in which half the duration is a whole number.               *)
(***************************************************************************)
MaxSfxStart == 5           \* start_time of a contextual image: 0 .. this many tenths
MaxSfxDuration == 10       \* sfx_duration: 1 .. this many tenths

NoImageGiven == [is_fullscreen |-> FALSE, start_time |-> -1]

ContextualImages == [is_fullscreen : BOOLEAN, start_time : 0..MaxSfxStart]

\* a segment: its "contextual_images" list and its legacy "contextual_image"
SfxSegments ==
    {[contextual_images |-> <<>>, contextual_image |-> NoImageGiven]}
    \cup { [contextual_images |-> <<ctx>>, contextual_image |-> NoImageGiven] :
              ctx \in ContextualImages }
    \cup { [contextual_images |-> <<>>, contextual_image |-> ctx] : ctx \in ContextualImages }
    \cup { [contextual_images |-> <<ctx>>, contextual_image |-> ctx] : ctx \in ContextualImages }
    \cup { [contextual_images |-> <<ctx>>,
            contextual_image |-> [is_fullscreen |-> TRUE, start_time |-> 0]] :
              ctx \in ContextualImages }

SfxPlans == {<<>>} \cup { <<a>> : a \in SfxSegments } \cup { <<a, b>> : a, b \in SfxSegments }

\* ctx_list: the list, and the legacy object when it is given and not in it
ctx_list(seg) ==
    IF /\ seg.contextual_image # NoImageGiven
       /\ \A k \in 1..Len(seg.contextual_images) :
             seg.contextual_images[k] # seg.contextual_image
    THEN Append(seg.contextual_images, seg.contextual_image)
    ELSE seg.contextual_images

\* start_time - offset, not kept from going below zero
unclamped_start(start_time, sfx_duration) == 2 * start_time - sfx_duration

\* centered_start = max(0.0, start_time - sfx_duration / 2), in twentieths
centered_start(start_time, sfx_duration) == Max(0, 2 * start_time - sfx_duration)

\* the clips of one segment: one for each fullscreen image of ctx_list
SegmentClips(seg, sfx_duration) ==
    LET fullscreen == SelectSeq(ctx_list(seg), LAMBDA ctx : ctx.is_fullscreen)
    IN  [k \in 1..Len(fullscreen) |->
            [ start |-> centered_start(fullscreen[k].start_time, sfx_duration),
              transition |-> fullscreen[k].start_time ]]

SfxInit ==
    /\ component = "sfx"
    /\ pc = "sound_effects"
    /\ \E video_plan \in SfxPlans, sfx_duration \in 1..MaxSfxDuration, exists \in BOOLEAN :
          sfx = [ video_plan |-> video_plan,
                  sfx_exists |-> exists,
                  sfx_duration |-> sfx_duration,
                  seg |-> 0,
                  sfx_clips |-> <<>> ]
    /\ AlignIdle
    /\ PoseIdle
    /\ AnimIdle
    /\ VisualIdle
    /\ render = <<>>
    /\ execute = <<>>
    /\ image_cache = <<>>
    /\ captions = <<>>
    /\ renders = <<>>
    /\ floating = <<>>
    /\ finder = <<>>
    /\ mouth = <<>>
    /\ flat = <<>>
    /\ progress = <<>>

SfxStays ==
    UNCHANGED <<component, alignVars, poseVars, animVars, visualVars,
                render, execute, image_cache, captions, renders,
                floating, finder, mouth, flat, progress>>

\* "if sfx_path.exists() and video_plan" fails: no sound effect
SfxNone ==
    /\ component = "sfx"
    /\ pc = "sound_effects"
    /\ ~sfx.sfx_exists \/ sfx.video_plan = <<>>
    /\ pc' = "combine"
    /\ UNCHANGED sfx
    /\ SfxStays

\* one turn of "for seg in video_plan"
SfxSegment ==
    /\ component = "sfx"
    /\ pc = "sound_effects"
    /\ sfx.sfx_exists
    /\ sfx.seg < Len(sfx.video_plan)
    /\ sfx' = [sfx EXCEPT
                  !.seg = @ + 1,
                  !.sfx_clips = @ \o SegmentClips(sfx.video_plan[sfx.seg + 1],
                                                  sfx.sfx_duration)]
    /\ UNCHANGED pc
    /\ SfxStays

\* the loop ends: "if sfx_clips: final_audio_clips.extend(sfx_clips)"
SfxDone ==
    /\ component = "sfx"
    /\ pc = "sound_effects"
    /\ sfx.sfx_exists
    /\ sfx.video_plan # <<>>
    /\ sfx.seg = Len(sfx.video_plan)
    /\ pc' = "combine"
    /\ UNCHANGED sfx
    /\ SfxStays

SfxNext == SfxNone \/ SfxSegment \/ SfxDone

SpecSfx == SfxInit /\ [][SfxNext]_vars

(***************************************************************************)
(* Claim about the sound effects, checked under SpecSfx.                   *)
(***************************************************************************)
\* The different fullscreen images of the segments read so far
FullscreenSeen ==
    { <<n, ctx>> \in (1..sfx.seg) \X ContextualImages :
          /\ ctx.is_fullscreen
          /\ \/ ctx \in { sfx.video_plan[n].contextual_images[k] :
                             k \in 1..Len(sfx.video_plan[n].contextual_images) }
             \/ ctx = sfx.video_plan[n].contextual_image }

\* C27: every fullscreen contextual image with start time s gets the sound
\* effect of duration d at max(0, s - d/2): the clip never starts before 0, it
\* is centred on s when s >= d/2 and starts at 0 otherwise.
C27_SfxCentred ==
    (component = "sfx" /\ sfx.sfx_exists) =>
        /\ Len(sfx.sfx_clips) = Cardinality(FullscreenSeen)
        /\ \A k \in 1..Len(sfx.sfx_clips) :
              LET clip == sfx.sfx_clips[k]
              IN  /\ clip.start >= 0
                  /\ 2 * clip.transition >= sfx.sfx_duration
                        => clip.start + sfx.sfx_duration = 2 * clip.transition
                  /\ 2 * clip.transition < sfx.sfx_duration => clip.start = 0

\* an effect of 0.4 s: the image at 0.1 s has its clip at 0.0 s, the image at
\* 0.5 s has its clip at 0.3 s
C27_Witness ==
    /\ component = "sfx"
    /\ pc = "combine"
    /\ sfx.sfx_duration = 4
    /\ Len(sfx.sfx_clips) = 2
    /\ sfx.sfx_clips[1] = [start |-> 0, transition |-> 1]
    /\ sfx.sfx_clips[2] = [start |-> 6, transition |-> 5]

(***************************************************************************)
(* Index claims about the aligner, checked under SpecAlign.                *)
(***************************************************************************)
\* C28: the cursor and the start and end index of every segment stay within
\* [0, total_words], also when the cursor reaches the end of the transcript
\* before the last script segment.
C28_IndicesWithinTranscript ==
    component = "align" =>
        /\ current_idx \in 0..total_words
        /\ \A n \in 1..Len(aligned_segments) :
              /\ aligned_segments[n].start_idx \in 0..total_words
              /\ aligned_segments[n].end_idx \in 0..total_words

\* The transcript indices (0-based) of the words of segment n
WordIndices(n) ==
    { aligned_segments[n].start_idx + j - 1 : j \in 1..Len(aligned_segments[n].words) }

\* C29: no transcript word is assigned to two segments and none is reordered:
\* the words of a segment are the transcript words of its index range in
\* transcript order, and for i < j every word index of segment i is smaller
\* than every word index of segment j.
C29_WordsOnceInOrder ==
    component = "align" =>
        /\ \A n \in 1..Len(aligned_segments) :
              /\ WordIndices(n) \subseteq 0..(total_words - 1)
              /\ \A j \in 1..Len(aligned_segments[n].words) :
                    aligned_segments[n].words[j] =
                        transcript[aligned_segments[n].start_idx + j]
        /\ \A n, m \in 1..Len(aligned_segments) :
              n < m => \A k \in WordIndices(n), l \in WordIndices(m) : k < l

\* A returned alignment of three segments, each with at least one word
C29_Witness ==
    /\ Returned
    /\ Len(aligned_segments) = 3
    /\ \A n \in 1..3 : aligned_segments[n].words # <<>>

(***************************************************************************)
(* The status file of a render: update_render_status                       *)
(* (src/lds_mcp/tools/short_renderer.py:71-86) as ShortVideoRenderer.render *)
(* calls it (1985-2411).  A progress value is kept in tenths of a percent,  *)
(* as round(progress, 1) writes it.                                        *)
(***************************************************************************)
MaxStatusSeconds == 12     \* audio_duration: 0 .. this many whole seconds

StatusEverySeconds == 5    \* "if frame_idx % (self.fps * 5) == 0"
RenderingBase == 5         \* 5 + (progress * 0.85)
RenderingSpan == 85
EncodingProgress == 90
MuxingProgress == 92
CompleteProgress == 100

\* no status file yet
NoStatus == [phase |-> "none", progress |-> 0]

\* what execute_render wrote before it called render
StartingRender == [phase |-> "rendering", progress |-> 10 * RenderingBase]

\* round(x, 1) of x = num / den percent, in tenths
RoundTenth(num, den) == (20 * num + den) \div (2 * den)

\* 5 + ((frame_idx / total_frames) * 100) * 0.85
rendering_progress(frame_idx, total_frames) ==
    RoundTenth(RenderingBase * total_frames + RenderingSpan * frame_idx, total_frames)

\* update_render_status(phase, message, progress): the file is rewritten
update_render_status(file, phase, tenths) ==
    [file EXCEPT
        !.status = [phase |-> phase, progress |-> tenths],
        !.written = Append(@, [phase |-> phase, progress |-> tenths])]

StatusInit ==
    /\ component = "status"
    /\ pc = "imports"
    /\ \E audio_duration \in 0..MaxStatusSeconds, before \in {NoStatus, StartingRender} :
          progress = [ audio_duration |-> audio_duration,
                       total_frames |-> 0,
                       frame_idx |-> 0,
                       status |-> before,
                       written |-> <<>>,
                       result |-> "",
                       message |-> "" ]
    /\ AlignIdle
    /\ PoseIdle
    /\ AnimIdle
    /\ VisualIdle
    /\ render = <<>>
    /\ execute = <<>>
    /\ image_cache = <<>>
    /\ captions = <<>>
    /\ renders = <<>>
    /\ floating = <<>>
    /\ finder = <<>>
    /\ mouth = <<>>
    /\ flat = <<>>
    /\ sfx = <<>>

StatusStays ==
    UNCHANGED <<component, alignVars, poseVars, animVars, visualVars,
                render, execute, image_cache, captions, renders,
                floating, finder, mouth, flat, sfx>>

\* "except ImportError: return {'status': 'error', ...}" for av, PIL or numpy
StatusImportFails ==
    /\ component = "status"
    /\ pc = "imports"
    /\ pc' = "returned"
    /\ progress' = [progress EXCEPT !.result = "error", !.message = "PyAV not installed"]
    /\ StatusStays

\* from the audio duration to "total_frames = int(audio_duration * self.fps)"
StatusSetup ==
    /\ component = "status"
    /\ pc = "imports"
    /\ pc' = "frames"
    /\ progress' = [progress EXCEPT !.total_frames = progress.audio_duration * RenderFps]
    /\ StatusStays

\* one turn of "for frame_idx in range(total_frames)"
StatusFrame ==
    /\ component = "status"
    /\ pc = "frames"
    /\ progress.frame_idx < progress.total_frames
    /\ IF progress.frame_idx % (RenderFps * StatusEverySeconds) = 0
       THEN progress' = update_render_status(
                            [progress EXCEPT !.frame_idx = @ + 1], "rendering",
                            rendering_progress(progress.frame_idx, progress.total_frames))
       ELSE progress' = [progress EXCEPT !.frame_idx = @ + 1]
    /\ UNCHANGED pc
    /\ StatusStays

\* update_render_status("encoding", "Flushing video encoder...", 90)
StatusFlush ==
    /\ component = "status"
    /\ pc = "frames"
    /\ progress.frame_idx = progress.total_frames
    /\ pc' = "close"
    /\ progress' = update_render_status(progress, "encoding", 10 * EncodingProgress)
    /\ StatusStays

\* the container is closed; update_render_status("muxing", "Adding audio track...", 92)
StatusStartMux ==
    /\ component = "status"
    /\ pc = "close"
    /\ pc' = "ffmpeg"
    /\ progress' = update_render_status(progress, "muxing", 10 * MuxingProgress)
    /\ StatusStays

\* "except subprocess.TimeoutExpired: ... return {'status': 'partial', ...}"
StatusMuxTimeout ==
    /\ component = "status"
    /\ pc = "ffmpeg"
    /\ pc' = "returned"
    /\ progress' = [progress EXCEPT
                       !.result = "partial",
                       !.message = "Video created but audio muxing timed out (10 min limit)"]
    /\ StatusStays

\* "if returncode != 0: ... return {'status': 'partial', ...}"
StatusMuxFails ==
    /\ component = "status"
    /\ pc = "ffmpeg"
    /\ pc' = "returned"
    /\ progress' = [progress EXCEPT
                       !.result = "partial",
                       !.message = "Video created but audio muxing failed"]
    /\ StatusStays

\* update_render_status("complete", ..., 100, ...) and the success result
StatusComplete ==
    /\ component = "status"
    /\ pc = "ffmpeg"
    /\ pc' = "returned"
    /\ progress' = [update_render_status(progress, "complete", 10 * CompleteProgress)
                       EXCEPT !.result = "success"]
    /\ StatusStays

\* "except Exception as e: ... update_render_status('error', ..., 0, ...)"
StatusRaise ==
    /\ component = "status"
    /\ pc \in {"frames", "close", "ffmpeg"}
    /\ pc' = "returned"
    /\ progress' = [update_render_status(progress, "error", 0)
                       EXCEPT !.result = "error", !.message = "Render failed"]
    /\ StatusStays

StatusNext ==
    \/ StatusImportFails
    \/ StatusSetup
    \/ StatusFrame
    \/ StatusFlush
    \/ StatusStartMux
    \/ StatusMuxTimeout
    \/ StatusMuxFails
    \/ StatusComplete
    \/ StatusRaise

SpecStatus == StatusInit /\ [][StatusNext]_vars

(***************************************************************************)
(* Claim about the status file, checked under SpecStatus.                  *)
(***************************************************************************)
TerminalPhases == {"complete", "error"}

\* C30: whenever render returns, the last record written to the status file is
\* terminal and matches the outcome: phase "complete" with progress 100 for a
\* success, phase "error" for a failure, and never a non-terminal phase such
\* as "muxing", the partial results included; on the success path the written
\* progress values never decrease.
C30_StatusTerminalOnReturn ==
    (component = "status" /\ pc = "returned") =>
        /\ progress.status.phase \in TerminalPhases
        /\ progress.result = "success" =>
              /\ progress.status = [phase |-> "complete", progress |-> 10 * CompleteProgress]
              /\ \A n \in 1..(Len(progress.written) - 1) :
                    progress.written[n].progress <= progress.written[n + 1].progress
        /\ progress.result = "error" => progress.status.phase = "error"

====
